---- MODULE Spec2Model ----
(***************************************************************************)
(* A model of the Aether OS Python SDK (sdk-python/aether): the response   *)
(* normalizer of the synchronous and asynchronous clients, the bearer      *)
(* token they hold, the requests they send, the paths the namespace        *)
(* methods build, the client instances with their connection pools and     *)
(* with blocks, and the SSE event reader with the life of its stream.      *)
(***************************************************************************)
EXTENDS Integers, Sequences, FiniteSets, Bags, TLC

VARIABLES
    mode,       \* "sync" (AetherClient) or "async" (AetherAsyncClient)
    token,      \* self._token, a Python value (None is JNull)
    nSent,      \* number of HTTP requests the client has put on the wire
    lastReq,    \* the request most recently sent (what the server records)
    pending,    \* async client: the bag of calls suspended on their response
    outcome,    \* the most recently completed call: its kind, response, result
    lines,      \* SSE: the protocol lines delivered so far, in order
    buffer,     \* SSE: the data accumulated for the record being assembled
    decoded,    \* SSE: the texts handed to json.loads so far, in order
    emitted,    \* SSE: the events yielded to the consumer so far, in order
    stream,     \* SSE generator: "none", "new" (created), "open" (running in a
                \* pull), "suspended" (at its yield), "ended" (server closed),
                \* "failed" (error raised), "closed" (closed by the consumer)
    clients,    \* the client instances of the process, each with its own fields
    sub,        \* event stream: the arguments its generator was created with
    opened,     \* event stream: the connections it opened, with their state
    pulls       \* event stream: the pulls that gave no event ("error", "stop",
                \* "cancelled")

vars == <<mode, token, nSent, lastReq, pending, outcome,
          lines, buffer, decoded, emitted, stream,
          clients, sub, opened, pulls>>
clientVars == <<mode, token, nSent, lastReq, pending, outcome>>
sseVars == <<lines, buffer, decoded, emitted, stream>>
instanceVars == <<clients, sub, opened, pulls>>

(***************************************************************************)
(* Python / JSON values.  json() of a response body and json.loads give    *)
(* None, bool, str, int, list and dict; each is a tagged record.           *)
(***************************************************************************)
JNull == [k |-> "null"]
JStr(s) == [k |-> "str", v |-> s]
JNum(n) == [k |-> "num", v |-> n]
JBool(b) == [k |-> "bool", v |-> b]
JList(q) == [k |-> "list", v |-> q]
JDict(f) == [k |-> "dict", v |-> f]
EmptyMap == [key \in {} |-> JNull]

IsDict(x) == x.k = "dict"
HasKey(d, key) == key \in DOMAIN d.v

\* Python truthiness: None, False, "", 0, [] and {} are falsy.
Truthy(x) ==
    CASE x.k = "null" -> FALSE
      [] x.k = "str"  -> x.v # ""
      [] x.k = "num"  -> x.v # 0
      [] x.k = "list" -> x.v # <<>>
      [] x.k = "dict" -> DOMAIN x.v # {}
      [] x.k = "bool" -> x.v

\* dict.get(key, default)
DictGet(d, key, default) == IF HasKey(d, key) THEN d.v[key] ELSE default

(***************************************************************************)
(* Results of a call: a returned value or a raised exception.              *)
(***************************************************************************)
Return(val) == [kind |-> "return", value |-> val]
Raise(exc) == [kind |-> "raise", exc |-> exc]
RaiseAetherError(message, code, status) ==
    [kind |-> "raise", exc |-> "AetherError",
     message |-> message, code |-> code, status |-> status]
NoOutcome == [call |-> "none"]

(***************************************************************************)
(* HTTP responses: status, reason phrase, and a body that either is JSON   *)
(* text (carried as the value it parses to) or is not.                     *)
(***************************************************************************)
JsonBody(val) == [json |-> TRUE, value |-> val]
TextBody(text) == [json |-> FALSE, text |-> text]
Response(status, reason, body) ==
    [status |-> status, reason |-> reason, body |-> body]

\* httpx.Response.is_success
IsSuccess(r) == r.status >= 200 /\ r.status <= 299

\* httpx.Response.json(): the parsed body, or a JSON decode error.
ResponseJson(r) ==
    IF r.body.json THEN Return(r.body.value) ELSE Raise("JSONDecodeError")

\* The string made of the pieces ps one after the other (f-string, "".join).
RECURSIVE Concat(_)
Concat(ps) == IF ps = <<>> THEN "" ELSE Head(ps) \o Concat(Tail(ps))

(***************************************************************************)
(* AetherClient._handle_response (client.py).                              *)
(***************************************************************************)
\* try: parsed = response.json()  except Exception: parsed = None
ParsedOrNone(r) ==
    LET j == ResponseJson(r) IN IF j.kind = "return" THEN j.value ELSE JNull

\* Mutant: the field is read from the top level of the body, not under "error".
ErrorFieldTopLevel(parsed, name) ==
    IF ~IsDict(parsed) THEN Return(JNull)
    ELSE Return(DictGet(parsed, name, JNull))

\* parsed.get("error", {}).get(name) if isinstance(parsed, dict) else None
\* : a Return of the value, or the AttributeError of .get on a non-dict.
ErrorField(parsed, name) ==
    IF ~IsDict(parsed) THEN Return(JNull)
    ELSE LET err == DictGet(parsed, "error", JDict(EmptyMap)) IN
         IF IsDict(err) THEN Return(DictGet(err, name, JNull))
         ELSE Raise("AttributeError")

\* f"HTTP {response.status_code}: {response.reason_phrase}"
FallbackMessage(r) == JStr("HTTP " \o ToString(r.status) \o ": " \o r.reason)

\* f"HTTP_{response.status_code}"
FallbackCode(r) == JStr("HTTP_" \o ToString(r.status))

\* x or y
PyOr(x, y) == IF Truthy(x) THEN x ELSE y

\* Mutant: response.json() is called outside any try, so its error escapes.
RaiseForFailureUncaught(r) ==
    LET j == ResponseJson(r) IN
    IF j.kind = "raise" THEN j
    ELSE LET m == ErrorField(j.value, "message")
             c == ErrorField(j.value, "code")
         IN  IF m.kind = "raise" THEN m
             ELSE IF c.kind = "raise" THEN c
             ELSE RaiseAetherError(PyOr(m.value, FallbackMessage(r)),
                                   PyOr(c.value, FallbackCode(r)),
                                   r.status)

\* Mutant: the body's code and message are used only when both are given.
RaiseForFailureBothOrNone(r) ==
    LET parsed == ParsedOrNone(r)
        m == ErrorField(parsed, "message")
        c == ErrorField(parsed, "code")
    IN  IF m.kind = "raise" THEN m
        ELSE IF c.kind = "raise" THEN c
        ELSE IF Truthy(m.value) /\ Truthy(c.value)
        THEN RaiseAetherError(m.value, c.value, r.status)
        ELSE RaiseAetherError(FallbackMessage(r), FallbackCode(r), r.status)

\* The non-2xx branch: resolve message, then code, then raise AetherError.
RaiseForFailure(r) ==
    LET parsed == ParsedOrNone(r)
        m == ErrorField(parsed, "message")
        c == ErrorField(parsed, "code")
    IN  IF m.kind = "raise" THEN m
        ELSE IF c.kind = "raise" THEN c
        ELSE RaiseAetherError(PyOr(m.value, FallbackMessage(r)),
                              PyOr(c.value, FallbackCode(r)),
                              r.status)

\* Mutant: envelopes are unwrapped for as long as a data key is found.
UnwrapDeep(data) ==
    IF IsDict(data) /\ HasKey(data, "data")
    THEN LET inner == data.v["data"] IN
         IF IsDict(inner) /\ HasKey(inner, "data") THEN inner.v["data"] ELSE inner
    ELSE data

\* Mutant: return data.get("data") for every dict, with or without the key.
UnwrapGet(data) ==
    IF IsDict(data) THEN DictGet(data, "data", JNull) ELSE data

\* if isinstance(data, dict) and "data" in data: return data["data"]
\* return data
Unwrap(data) ==
    IF IsDict(data) /\ HasKey(data, "data") THEN data.v["data"] ELSE data

\* Mutant: a 2xx body that does not parse is returned as None.
ReturnForSuccessLenient(r) ==
    LET j == ResponseJson(r) IN
    IF j.kind = "raise" THEN Return(JNull) ELSE Return(Unwrap(j.value))

\* The 2xx branch: data = response.json(), a parse error propagating.
ReturnForSuccess(r) ==
    LET j == ResponseJson(r) IN
    IF j.kind = "raise" THEN j ELSE Return(Unwrap(j.value))

HandleResponse(r) ==
    IF ~IsSuccess(r) THEN RaiseForFailure(r) ELSE ReturnForSuccess(r)

(***************************************************************************)
(* AetherAsyncClient._handle_response (async_client.py): its own copy of   *)
(* the same steps.                                                         *)
(***************************************************************************)
AsyncErrorField(parsed, name) ==
    IF ~IsDict(parsed) THEN Return(JNull)
    ELSE LET err == DictGet(parsed, "error", JDict(EmptyMap)) IN
         IF IsDict(err) THEN Return(DictGet(err, name, JNull))
         ELSE Raise("AttributeError")

AsyncRaiseForFailure(r) ==
    LET parsed == ParsedOrNone(r)
        m == AsyncErrorField(parsed, "message")
        c == AsyncErrorField(parsed, "code")
    IN  IF m.kind = "raise" THEN m
        ELSE IF c.kind = "raise" THEN c
        ELSE RaiseAetherError(PyOr(m.value, FallbackMessage(r)),
                              PyOr(c.value, FallbackCode(r)),
                              r.status)

AsyncUnwrap(data) ==
    IF IsDict(data) /\ HasKey(data, "data") THEN data.v["data"] ELSE data

AsyncReturnForSuccess(r) ==
    LET j == ResponseJson(r) IN
    IF j.kind = "raise" THEN j ELSE Return(AsyncUnwrap(j.value))

AsyncHandleResponse(r) ==
    IF ~IsSuccess(r) THEN AsyncRaiseForFailure(r) ELSE AsyncReturnForSuccess(r)

\* The normalizer of the client class in use.
Normalize(m, r) ==
    IF m = "sync" THEN HandleResponse(r) ELSE AsyncHandleResponse(r)

(***************************************************************************)
(* Bounds and the inputs drawn in the checks.                              *)
(***************************************************************************)
MaxRequests == 3    \* requests a client sends in one run
MaxInflight == 2    \* async calls suspended on their response at once
MaxLines == 5       \* SSE protocol lines delivered in one run
MaxNormalized == 1  \* calls per run when the normalizer alone is checked

Modes == {"sync", "async"}
Methods == {"GET", "POST", "PUT", "PATCH", "DELETE"}

\* Tokens given to the constructor (None by default) and to set_token.
InitTokens == {JNull, JStr("t0")}
SetTokens == {JStr(""), JStr("t1")}
Usernames == {"admin"}
Passwords == {"secret"}

\* Status lines: httpx gives an unknown status an empty reason phrase.
StatusLines == {
    <<200, "OK">>, <<201, "Created">>, <<302, "Found">>,
    <<404, "Not Found">>, <<500, "Internal Server Error">>, <<599, "">> }

ErrXY(x, y) == JDict([error |-> JDict([code |-> JStr(x), message |-> JStr(y)])])

\* Parsed JSON bodies: envelopes, bare values, login bodies, error envelopes.
JsonValues == {
    JNull, JNum(5), JStr("pong"), JList(<<JNum(1), JNum(2), JNum(3)>>),
    JDict(EmptyMap),
    JDict([ok |-> JNum(1)]),
    JDict([data |-> JList(<<JNum(1), JNum(2), JNum(3)>>),
           meta |-> JDict([total |-> JNum(3)])]),
    JDict([data |-> JNull]),
    JDict([data |-> JDict(EmptyMap)]),
    JDict([data |-> JDict([data |-> JNum(1)])]),
    JDict([result |-> JDict([data |-> JNum(1)])]),
    JDict([token |-> JStr("jwt-1"), user |-> JDict([id |-> JStr("u1")])]),
    ErrXY("AGENT_NOT_FOUND", "No such agent"),
    ErrXY("", "No such agent"),
    ErrXY("AGENT_NOT_FOUND", ""),
    JDict([error |-> JDict([code |-> JStr("AGENT_NOT_FOUND")])]),
    JDict([error |-> JDict([message |-> JStr("No such agent")])]),
    JDict([error |-> JDict([code |-> JStr("")])]),
    JDict([error |-> JDict([message |-> JStr("")])]),
    JDict([error |-> JDict(EmptyMap)]),
    JDict([error |-> JStr("oops")]),
    JDict([error |-> JNull]),
    JDict([error |-> JList(<<JStr("oops")>>)]),
    JDict([message |-> JStr("top-level")]) }


Responses ==
    {Response(s[1], s[2], b) :
        s \in StatusLines,
        b \in {JsonBody(j) : j \in JsonValues}
                 \cup {TextBody(""), TextBody("Internal Server Error")}}

(***************************************************************************)
(* Requests.                                                               *)
(***************************************************************************)
NoHeaders == [h \in {} |-> ""]
NoBody == [k |-> "absent"]
NoRequest == [method |-> "none"]

\* str() of a token inside an f-string.
PyStr(x) ==
    CASE x.k = "str" -> x.v
      [] x.k = "num" -> ToString(x.v)
      [] x.k = "null" -> "None"
      [] OTHER -> "<object>"

\* Mutant: if self._token is not None, so an empty token is sent too.
HeadersNotNone(tok) ==
    IF tok # JNull THEN [Authorization |-> "Bearer " \o PyStr(tok)]
    ELSE NoHeaders

\* AetherClient._headers / AetherAsyncClient._headers
Headers(tok) ==
    IF Truthy(tok) THEN [Authorization |-> "Bearer " \o PyStr(tok)]
    ELSE NoHeaders

Request(method, path, body, headers) ==
    [method |-> method, path |-> path, json |-> body, headers |-> headers]

LoginPath == "/api/auth/login"
AgentsPath == "/api/v1/agents"

\* json={"username": username, "password": password}
LoginBody(username, password) ==
    JDict([username |-> JStr(username), password |-> JStr(password)])

\* The body a plain request carries: _get and _delete send none.
BodyOf(method) ==
    IF method \in {"GET", "DELETE"} THEN NoBody
    ELSE JDict([content |-> JStr("x")])

\* Responses the server gives in the client runs: login bodies of several
\* shapes, an envelope, a 2xx body that is not JSON, and a failure.
ClientResponses == {
    Response(200, "OK", JsonBody(JDict([token |-> JStr("jwt-1"),
                                        user |-> JDict([id |-> JStr("u1")])]))),
    Response(200, "OK", JsonBody(JDict([token |-> JStr(""),
                                        user |-> JDict(EmptyMap)]))),
    Response(200, "OK", JsonBody(JDict([token |-> JNull,
                                        user |-> JDict(EmptyMap)]))),
    Response(200, "OK", JsonBody(JDict([data |-> JDict([token |-> JStr("jwt-1")])]))),
    Response(200, "OK", JsonBody(JDict([data |-> JList(<<JNum(1)>>)]))),
    Response(200, "OK", TextBody("")),
    Response(401, "Unauthorized",
             JsonBody(ErrXY("UNAUTHORIZED", "Invalid token"))) }

(***************************************************************************)
(* The client: construction, set_token, the request methods and login.     *)
(***************************************************************************)
ClientInit ==
    /\ mode \in Modes
    /\ token \in InitTokens
    /\ nSent = 0
    /\ lastReq = NoRequest
    /\ pending = EmptyBag
    /\ outcome = NoOutcome

\* set_token
SetToken(t) ==
    /\ token' = t
    /\ UNCHANGED <<mode, nSent, lastReq, pending, outcome>>

\* Mutant: the token of the response is stored only when none is held.
LoginTokenIfUnset(tok, result) ==
    IF Truthy(tok) THEN tok
    ELSE IF result.kind = "return" /\ IsDict(result.value) /\ HasKey(result.value, "token")
    THEN result.value.v["token"]
    ELSE tok

\* Mutant: the token of the response is stored only when it is a true value.
LoginTokenIfTruthy(tok, result) ==
    IF result.kind = "return" /\ IsDict(result.value) /\ HasKey(result.value, "token")
       /\ Truthy(result.value.v["token"])
    THEN result.value.v["token"]
    ELSE tok

\* if isinstance(result, dict) and "token" in result: self._token = result["token"]
LoginToken(tok, result) ==
    IF result.kind = "return" /\ IsDict(result.value) /\ HasKey(result.value, "token")
    THEN result.value.v["token"]
    ELSE tok

\* Mutant: the headers are built for the first request and reused after it.
SentCached(method, path, body) ==
    Request(method, path, body,
            IF lastReq = NoRequest THEN Headers(token) ELSE lastReq.headers)

\* self._http.<method>(path, ..., headers=self._headers()): the request as sent.
Sent(method, path, body) == Request(method, path, body, Headers(token))

\* The call completes on response r: the normalizer runs, login stores a token.
Completed(call, r) ==
    LET result == Normalize(mode, r) IN
    /\ outcome' = [call |-> call, resp |-> r, result |-> result]
    /\ token' = IF call = "login" THEN LoginToken(token, result) ELSE token

\* A request method run from its call to its return or raise.
RequestMethod(method, r) ==
    /\ nSent < MaxRequests
    /\ pending = EmptyBag
    /\ LET req == Sent(method, AgentsPath, BodyOf(method)) IN
        /\ lastReq' = req
        /\ nSent' = nSent + 1
        /\ Completed("request", r)
    /\ UNCHANGED <<mode, pending>>

Get(r) == RequestMethod("GET", r)
Post(r) == RequestMethod("POST", r)
Put(r) == RequestMethod("PUT", r)
Patch(r) == RequestMethod("PATCH", r)
Delete(r) == RequestMethod("DELETE", r)

\* login, run from its call to its return or raise.
Login(username, password, r) ==
    /\ nSent < MaxRequests
    /\ pending = EmptyBag
    /\ LET req == Sent("POST", LoginPath, LoginBody(username, password)) IN
        /\ lastReq' = req
        /\ nSent' = nSent + 1
        /\ Completed("login", r)
    /\ UNCHANGED <<mode, pending>>

\* Async client: a call runs to its await of the HTTP exchange and suspends.
AsyncSend(call, method, path, body) ==
    /\ mode = "async"
    /\ nSent < MaxRequests
    /\ BagCardinality(pending) < MaxInflight
    /\ LET req == Sent(method, path, body) IN
        /\ lastReq' = req
        /\ nSent' = nSent + 1
        /\ pending' = pending (+) SetToBag({[call |-> call, req |-> req]})
    /\ UNCHANGED <<mode, token, outcome>>

AsyncSendRequest(method) ==
    AsyncSend("request", method, AgentsPath, BodyOf(method))

AsyncSendLogin(username, password) ==
    AsyncSend("login", "POST", LoginPath, LoginBody(username, password))

\* Async client: the response of suspended call c arrives and the call resumes.
AsyncReceive(c, r) ==
    /\ mode = "async"
    /\ BagIn(c, pending)
    /\ Completed(c.call, r)
    /\ pending' = pending (-) SetToBag({c})
    /\ UNCHANGED <<mode, nSent, lastReq>>

(***************************************************************************)
(* The event stream reader (events.py).  subscribe_events iterates the     *)
(* records the SSE transport reassembles from protocol lines and decodes   *)
(* each record's data as JSON.                                             *)
(***************************************************************************)
\* Payloads of data: lines.  PBig1/PBig2 and PSp1/PSp2 are one JSON text
\* split over two lines (the second inside a string literal); PBad is not
\* JSON, alone or within any concatenation.
PA == "{\"type\":\"a\"}"
PB == "{\"type\":\"b\"}"
PBad == "{\"bad"
PBig1 == "{\"type\":\"big\","
PBig2 == " \"payload\":\"hello\"}"
PSp1 == "{\"type\":\"sp"
PSp2 == "lit\"}"
Payloads == {PA, PB, PBad, PBig1, PBig2, PSp1, PSp2}

EvA == JDict([type |-> JStr("a")])
EvB == JDict([type |-> JStr("b")])
EvBig == JDict([type |-> JStr("big"), payload |-> JStr("hello")])
EvSplit == JDict([type |-> JStr("split")])

DataLineOf(p) == [kind |-> "data", payload |-> p]
Blank == [kind |-> "blank"]

\* json.loads on the texts the payloads can make up: the value, or
\* json.JSONDecodeError.  A line break between tokens is whitespace; inside
\* a string literal it is an invalid control character.
JsonLoads(text) ==
    CASE text = PA -> Return(EvA)
      [] text = PB -> Return(EvB)
      [] text = PBig1 \o PBig2 -> Return(EvBig)
      [] text = PBig1 \o "\n" \o PBig2 -> Return(EvBig)
      [] text = PSp1 \o PSp2 -> Return(EvSplit)
      [] OTHER -> Raise("JSONDecodeError")

\* Mutant: the lines of a record are joined with a line break.
AppendDataNewline(buf, payload) ==
    IF buf = "" THEN payload ELSE buf \o "\n" \o payload

\* A data: line adds its payload to the record being assembled.
AppendData(buf, payload) == buf \o payload

\* Mutant: yield sse.data, the text and not the value it decodes to.
OnSseRawText(data) ==
    IF data # ""
    THEN LET j == JsonLoads(data) IN
         IF j.kind = "return"
         THEN [events |-> <<JStr(data)>>, raised |-> FALSE, loads |-> <<data>>]
         ELSE [events |-> <<>>, raised |-> FALSE, loads |-> <<data>>]
    ELSE [events |-> <<>>, raised |-> FALSE, loads |-> <<>>]

\* Mutant: no try/except around json.loads, so a decode error escapes.
OnSseUncaught(data) ==
    IF data # ""
    THEN LET j == JsonLoads(data) IN
         IF j.kind = "return"
         THEN [events |-> <<j.value>>, raised |-> FALSE, loads |-> <<data>>]
         ELSE [events |-> <<>>, raised |-> TRUE, loads |-> <<data>>]
    ELSE [events |-> <<>>, raised |-> FALSE, loads |-> <<>>]

\* if sse.data: try: yield json.loads(sse.data)
\*              except json.JSONDecodeError: continue
\* : the events yielded for one record, and whether an error escapes.
OnSse(data) ==
    IF data # ""
    THEN LET j == JsonLoads(data) IN
         IF j.kind = "return"
         THEN [events |-> <<j.value>>, raised |-> FALSE, loads |-> <<data>>]
         ELSE [events |-> <<>>, raised |-> FALSE, loads |-> <<data>>]
    ELSE [events |-> <<>>, raised |-> FALSE, loads |-> <<>>]

\* The reader of a stream whose connection is open, inside the consumer's
\* first pull.
SSEInit ==
    /\ lines = <<>>
    /\ buffer = ""
    /\ decoded = <<>>
    /\ emitted = <<>>
    /\ stream = "open"

\* Mutant: the generator does not suspend at its yield but goes on reading.
AfterRecordEager(o) == IF o.raised THEN "failed" ELSE "open"

\* The generator after the loop body ran on a record: an escaping error ends
\* it, a yield suspends it until the next pull, and otherwise it reads on.
AfterRecord(o) ==
    IF o.raised THEN "failed"
    ELSE IF o.events # <<>> THEN "suspended"
    ELSE "open"

\* Mutant: leaving the generator leaves its connection and client open.
ReleasedNever(conns) == conns

\* Leaving the two with blocks closes the connection and the httpx client
\* the generator opened (none when it never started).
Released(conns) ==
    IF conns = <<>> THEN conns
    ELSE [conns EXCEPT ![Len(conns)].conn = "closed",
                       ![Len(conns)].http = "closed"]

\* The transport delivers a data: line.
DataLine(p) ==
    /\ stream = "open"
    /\ Len(lines) < MaxLines
    /\ lines' = Append(lines, DataLineOf(p))
    /\ buffer' = AppendData(buffer, p)
    /\ UNCHANGED <<decoded, emitted, stream>>

\* The transport delivers a blank line: the record assembled so far, if any,
\* is handed to the loop body, and the buffer starts empty again.
BlankLine ==
    /\ stream = "open"
    /\ Len(lines) < MaxLines
    /\ lines' = Append(lines, Blank)
    /\ buffer' = ""
    /\ LET o == OnSse(buffer) IN
        /\ decoded' = decoded \o o.loads
        /\ emitted' = emitted \o o.events
        /\ stream' = AfterRecord(o)

\* The consumer pulls the next event: the generator resumes after its yield.
NextPull ==
    /\ stream = "suspended"
    /\ stream' = "open"
    /\ UNCHANGED <<lines, buffer, decoded, emitted>>

\* The server closes the connection: iter_sse() ends, the generator leaves
\* its with blocks and returns.
ServerClose ==
    /\ stream = "open"
    /\ stream' = "ended"
    /\ buffer' = ""
    /\ opened' = Released(opened)
    /\ UNCHANGED <<lines, decoded, emitted>>

(***************************************************************************)
(* Namespace methods (namespaces.py).  A string argument is a sequence of  *)
(* characters; each method builds its path with an f-string and hands it   *)
(* to one method of the client.                                            *)
(***************************************************************************)
MaxArgLen == 3      \* characters of a path argument

ArgStrings == UNION {[1..n -> {"a", ".", "/", "?", "%", " "}] : n \in 0..MaxArgLen}

\* Identifiers given to the methods outside the filesystem namespace.
FewIds == {<<"a">>, <<"/">>, <<"a", "?">>}

\* urllib.parse.quote: letters, digits and "_.-~" are never quoted.
AlwaysSafe == {"a", "."}

\* "%XX" of the character's UTF-8 byte, as quote writes it.
PercentOf(ch) ==
    CASE ch = "/" -> <<"%", "2", "F">>
      [] ch = "?" -> <<"%", "3", "F">>
      [] ch = "%" -> <<"%", "2", "5">>
      [] ch = " " -> <<"%", "2", "0">>
      [] ch = "a" -> <<"%", "6", "1">>
      [] ch = "." -> <<"%", "2", "E">>

\* quote(string, safe=safe)
RECURSIVE Quote(_, _)
Quote(chars, safe) ==
    IF chars = <<>> THEN <<>>
    ELSE (IF Head(chars) \in AlwaysSafe \cup safe
          THEN <<Head(chars)>> ELSE PercentOf(Head(chars)))
         \o Quote(Tail(chars), safe)

\* Mutant: quote(path), with the default safe="/".
QuoteSlashSafe(chars) == Quote(chars, {"/"})

\* quote(path, safe='')
QuoteNoSafe(chars) == Quote(chars, {})

\* A method's route: the HTTP method, the literal pieces of its f-string
\* (one argument goes between two consecutive pieces), whether the argument
\* is passed through quote(..., safe=''), and the JSON body.
Route(method, pieces, quoted, body) ==
    [method |-> method, pieces |-> pieces, quoted |-> quoted, body |-> body]

ContentBody == JDict([content |-> JStr("x")])

NsMethods == {
    "agents.list", "agents.get", "agents.kill", "agents.message",
    "fs.read", "fs.write", "fs.delete",
    "templates.get", "system.status",
    "cron.delete", "cron.update", "triggers.delete",
    "orgs.get", "orgs.members.remove", "orgs.teams.remove_member",
    "marketplace.templates.fork", "integrations.get",
    "webhooks.delete", "plugins.uninstall" }

\* The synchronous namespace classes.
NsRoute(name) ==
    CASE name = "agents.list" ->
            Route("GET", <<"/api/v1/agents">>, FALSE, NoBody)
      [] name = "agents.get" ->
            Route("GET", <<"/api/v1/agents/", "">>, FALSE, NoBody)
      [] name = "agents.kill" ->
            Route("DELETE", <<"/api/v1/agents/", "">>, FALSE, NoBody)
      [] name = "agents.message" ->
            Route("POST", <<"/api/v1/agents/", "/message">>, FALSE, ContentBody)
      [] name = "fs.read" ->
            Route("GET", <<"/api/v1/fs/", "">>, TRUE, NoBody)
      [] name = "fs.write" ->
            Route("PUT", <<"/api/v1/fs/", "">>, TRUE, ContentBody)
      [] name = "fs.delete" ->
            Route("DELETE", <<"/api/v1/fs/", "">>, TRUE, NoBody)
      [] name = "templates.get" ->
            Route("GET", <<"/api/v1/templates/", "">>, FALSE, NoBody)
      [] name = "system.status" ->
            Route("GET", <<"/api/v1/system/status">>, FALSE, NoBody)
      [] name = "cron.delete" ->
            Route("DELETE", <<"/api/v1/cron/", "">>, FALSE, NoBody)
      [] name = "cron.update" ->
            Route("PATCH", <<"/api/v1/cron/", "">>, FALSE, JDict(EmptyMap))
      [] name = "triggers.delete" ->
            Route("DELETE", <<"/api/v1/triggers/", "">>, FALSE, NoBody)
      [] name = "orgs.get" ->
            Route("GET", <<"/api/v1/orgs/", "">>, FALSE, NoBody)
      [] name = "orgs.members.remove" ->
            Route("DELETE", <<"/api/v1/orgs/", "/members/", "">>, FALSE, NoBody)
      [] name = "orgs.teams.remove_member" ->
            Route("DELETE", <<"/api/v1/orgs/", "/teams/", "/members/", "">>,
                  FALSE, NoBody)
      [] name = "marketplace.templates.fork" ->
            Route("POST", <<"/api/v1/marketplace/templates/", "/fork">>,
                  FALSE, NoBody)
      [] name = "integrations.get" ->
            Route("GET", <<"/api/v1/integrations/", "">>, FALSE, NoBody)
      [] name = "webhooks.delete" ->
            Route("DELETE", <<"/api/v1/webhooks/", "">>, FALSE, NoBody)
      [] name = "plugins.uninstall" ->
            Route("DELETE", <<"/api/v1/marketplace/plugins/", "">>, FALSE, NoBody)

\* The asynchronous namespace classes.
AsyncNsRoute(name) ==
    CASE name = "agents.list" ->
            Route("GET", <<"/api/v1/agents">>, FALSE, NoBody)
      [] name = "agents.get" ->
            Route("GET", <<"/api/v1/agents/", "">>, FALSE, NoBody)
      [] name = "agents.kill" ->
            Route("DELETE", <<"/api/v1/agents/", "">>, FALSE, NoBody)
      [] name = "agents.message" ->
            Route("POST", <<"/api/v1/agents/", "/message">>, FALSE, ContentBody)
      [] name = "fs.read" ->
            Route("GET", <<"/api/v1/fs/", "">>, TRUE, NoBody)
      [] name = "fs.write" ->
            Route("PUT", <<"/api/v1/fs/", "">>, TRUE, ContentBody)
      [] name = "fs.delete" ->
            Route("DELETE", <<"/api/v1/fs/", "">>, TRUE, NoBody)
      [] name = "templates.get" ->
            Route("GET", <<"/api/v1/templates/", "">>, FALSE, NoBody)
      [] name = "system.status" ->
            Route("GET", <<"/api/v1/system/status">>, FALSE, NoBody)
      [] name = "cron.delete" ->
            Route("DELETE", <<"/api/v1/cron/", "">>, FALSE, NoBody)
      [] name = "cron.update" ->
            Route("PATCH", <<"/api/v1/cron/", "">>, FALSE, JDict(EmptyMap))
      [] name = "triggers.delete" ->
            Route("DELETE", <<"/api/v1/triggers/", "">>, FALSE, NoBody)
      [] name = "orgs.get" ->
            Route("GET", <<"/api/v1/orgs/", "">>, FALSE, NoBody)
      [] name = "orgs.members.remove" ->
            Route("DELETE", <<"/api/v1/orgs/", "/members/", "">>, FALSE, NoBody)
      [] name = "orgs.teams.remove_member" ->
            Route("DELETE", <<"/api/v1/orgs/", "/teams/", "/members/", "">>,
                  FALSE, NoBody)
      [] name = "marketplace.templates.fork" ->
            Route("POST", <<"/api/v1/marketplace/templates/", "/fork">>,
                  FALSE, NoBody)
      [] name = "integrations.get" ->
            Route("GET", <<"/api/v1/integrations/", "">>, FALSE, NoBody)
      [] name = "webhooks.delete" ->
            Route("DELETE", <<"/api/v1/webhooks/", "">>, FALSE, NoBody)
      [] name = "plugins.uninstall" ->
            Route("DELETE", <<"/api/v1/marketplace/plugins/", "">>, FALSE, NoBody)

RouteOf(m, name) == IF m = "sync" THEN NsRoute(name) ELSE AsyncNsRoute(name)

\* The f-string: the literal pieces with the rendered arguments between them.
RECURSIVE FillPath(_, _)
FillPath(pieces, rendered) ==
    IF Len(pieces) = 1 THEN Head(pieces)
    ELSE Head(pieces) \o Concat(Head(rendered))
         \o FillPath(Tail(pieces), Tail(rendered))

\* The argument tuples drawn for a route, one argument for each gap between
\* the pieces of its path.
ArgTuples(route) ==
    IF route.quoted THEN {<<a>> : a \in ArgStrings}
    ELSE [1..(Len(route.pieces) - 1) -> FewIds]

\* Responses of the server in the namespace runs.
NsResponses == {
    Response(200, "OK", JsonBody(JDict([data |-> JDict([ok |-> JNum(1)])]))),
    Response(404, "Not Found", JsonBody(ErrXY("NOT_FOUND", "Agent not found"))),
    Response(500, "Internal Server Error", JsonBody(JDict([error |-> JStr("oops")]))) }

\* A namespace method run from its call to its return or raise: the path is
\* built, one client method sends the request, the response is normalized.
NsInvoke(name, args, r) ==
    LET route == RouteOf(mode, name) IN
    /\ pending = EmptyBag
    /\ LET rendered == [k \in 1..Len(args) |->
                           IF route.quoted THEN QuoteNoSafe(args[k]) ELSE args[k]]
       IN  lastReq' = Sent(route.method, FillPath(route.pieces, rendered),
                           route.body)
    /\ nSent' = nSent + 1
    /\ outcome' = [call |-> name, args |-> args, resp |-> r,
                   result |-> Normalize(mode, r)]
    /\ UNCHANGED <<mode, token, pending>>

(***************************************************************************)
(* Keyword arguments of the namespace methods (namespaces.py).  A method   *)
(* builds a dict from its required arguments, adds each optional argument  *)
(* under a test of its value, and passes the dict as params= or json=.     *)
(***************************************************************************)
\* ",".join(tags)
RECURSIVE JoinComma(_)
JoinComma(q) ==
    IF q = <<>> THEN ""
    ELSE IF Len(q) = 1 THEN q[1].v
    ELSE q[1].v \o "," \o JoinComma(Tail(q))

\* A method's request: the HTTP method, the pieces of its path, whether the
\* dict goes as params or as json, the <<key, argument>> pairs written in the
\* dict's literal, those added under a test, and the arguments joined by ",".
KwRoute(method, pieces, via, required, optional, joined) ==
    [method |-> method, pieces |-> pieces, via |-> via,
     required |-> required, optional |-> optional, joined |-> joined]

KwMethods == {
    "agents.list", "agents.spawn", "agents.timeline",
    "agents.memory", "cron.create", "cron.update",
    "triggers.create", "orgs.members.invite", "orgs.members.update_role",
    "orgs.teams.create", "orgs.teams.add_member", "orgs.create",
    "orgs.update", "marketplace.templates.list", "marketplace.templates.rate",
    "integrations.register", "integrations.execute", "webhooks.create",
    "plugins.list" }

\* The synchronous namespace classes.
SyncKwRoute(name) ==
    CASE name = "agents.list" ->
            KwRoute("GET", <<"/api/v1/agents">>, "params",
                    <<>>,
                    <<<<"status", "status">>, <<"limit", "limit">>, <<"offset", "offset">>>>, {})
      [] name = "agents.spawn" ->
            KwRoute("POST", <<"/api/v1/agents">>, "json",
                    <<<<"role", "role">>, <<"goal", "goal">>>>,
                    <<<<"model", "model">>, <<"tools", "tools">>, <<"maxSteps", "max_steps">>>>, {})
      [] name = "agents.timeline" ->
            KwRoute("GET", <<"/api/v1/agents/", "/timeline">>, "params",
                    <<>>,
                    <<<<"limit", "limit">>, <<"offset", "offset">>>>, {})
      [] name = "agents.memory" ->
            KwRoute("GET", <<"/api/v1/agents/", "/memory">>, "params",
                    <<>>,
                    <<<<"query", "query">>, <<"layer", "layer">>, <<"limit", "limit">>>>, {})
      [] name = "cron.create" ->
            KwRoute("POST", <<"/api/v1/cron">>, "json",
                    <<<<"name", "name">>, <<"expression", "expression">>, <<"agent_config", "agent_config">>>>,
                    <<>>, {})
      [] name = "cron.update" ->
            KwRoute("PATCH", <<"/api/v1/cron/", "">>, "json",
                    <<>>,
                    <<<<"enabled", "enabled">>>>, {})
      [] name = "triggers.create" ->
            KwRoute("POST", <<"/api/v1/triggers">>, "json",
                    <<<<"name", "name">>, <<"event_type", "event_type">>, <<"agent_config", "agent_config">>>>,
                    <<>>, {})
      [] name = "orgs.members.invite" ->
            KwRoute("POST", <<"/api/v1/orgs/", "/members">>, "json",
                    <<<<"userId", "user_id">>>>,
                    <<<<"role", "role">>>>, {})
      [] name = "orgs.members.update_role" ->
            KwRoute("PATCH", <<"/api/v1/orgs/", "/members/", "">>, "json",
                    <<<<"role", "role">>>>,
                    <<>>, {})
      [] name = "orgs.teams.create" ->
            KwRoute("POST", <<"/api/v1/orgs/", "/teams">>, "json",
                    <<<<"name", "name">>>>,
                    <<<<"description", "description">>>>, {})
      [] name = "orgs.teams.add_member" ->
            KwRoute("POST", <<"/api/v1/orgs/", "/teams/", "/members">>, "json",
                    <<<<"userId", "user_id">>>>,
                    <<<<"role", "role">>>>, {})
      [] name = "orgs.create" ->
            KwRoute("POST", <<"/api/v1/orgs">>, "json",
                    <<<<"name", "name">>>>,
                    <<<<"displayName", "display_name">>>>, {})
      [] name = "orgs.update" ->
            KwRoute("PATCH", <<"/api/v1/orgs/", "">>, "json",
                    <<>>,
                    <<<<"displayName", "display_name">>, <<"settings", "settings">>>>, {})
      [] name = "marketplace.templates.list" ->
            KwRoute("GET", <<"/api/v1/marketplace/templates">>, "params",
                    <<>>,
                    <<<<"category", "category">>, <<"tags", "tags">>>>, {"tags"})
      [] name = "marketplace.templates.rate" ->
            KwRoute("POST", <<"/api/v1/marketplace/templates/", "/rate">>, "json",
                    <<<<"rating", "rating">>>>,
                    <<<<"review", "review">>>>, {})
      [] name = "integrations.register" ->
            KwRoute("POST", <<"/api/v1/integrations">>, "json",
                    <<<<"type", "type">>, <<"name", "name">>>>,
                    <<<<"credentials", "credentials">>>>, {})
      [] name = "integrations.execute" ->
            KwRoute("POST", <<"/api/v1/integrations/", "/execute">>, "json",
                    <<<<"action", "action">>>>,
                    <<<<"params", "params">>>>, {})
      [] name = "webhooks.create" ->
            KwRoute("POST", <<"/api/v1/webhooks">>, "json",
                    <<<<"url", "url">>, <<"events", "events">>>>,
                    <<<<"secret", "secret">>>>, {})
      [] name = "plugins.list" ->
            KwRoute("GET", <<"/api/v1/marketplace/plugins">>, "params",
                    <<>>,
                    <<<<"category", "category">>>>, {})

\* The asynchronous namespace classes.
AsyncKwRoute(name) ==
    CASE name = "agents.list" ->
            KwRoute("GET", <<"/api/v1/agents">>, "params",
                    <<>>,
                    <<<<"status", "status">>, <<"limit", "limit">>, <<"offset", "offset">>>>, {})
      [] name = "agents.spawn" ->
            KwRoute("POST", <<"/api/v1/agents">>, "json",
                    <<<<"role", "role">>, <<"goal", "goal">>>>,
                    <<<<"model", "model">>, <<"tools", "tools">>, <<"maxSteps", "max_steps">>>>, {})
      [] name = "agents.timeline" ->
            KwRoute("GET", <<"/api/v1/agents/", "/timeline">>, "params",
                    <<>>,
                    <<<<"limit", "limit">>, <<"offset", "offset">>>>, {})
      [] name = "agents.memory" ->
            KwRoute("GET", <<"/api/v1/agents/", "/memory">>, "params",
                    <<>>,
                    <<<<"query", "query">>, <<"layer", "layer">>, <<"limit", "limit">>>>, {})
      [] name = "cron.create" ->
            KwRoute("POST", <<"/api/v1/cron">>, "json",
                    <<<<"name", "name">>, <<"expression", "expression">>, <<"agent_config", "agent_config">>>>,
                    <<>>, {})
      [] name = "cron.update" ->
            KwRoute("PATCH", <<"/api/v1/cron/", "">>, "json",
                    <<>>,
                    <<<<"enabled", "enabled">>>>, {})
      [] name = "triggers.create" ->
            KwRoute("POST", <<"/api/v1/triggers">>, "json",
                    <<<<"name", "name">>, <<"event_type", "event_type">>, <<"agent_config", "agent_config">>>>,
                    <<>>, {})
      [] name = "orgs.members.invite" ->
            KwRoute("POST", <<"/api/v1/orgs/", "/members">>, "json",
                    <<<<"userId", "user_id">>>>,
                    <<<<"role", "role">>>>, {})
      [] name = "orgs.members.update_role" ->
            KwRoute("PATCH", <<"/api/v1/orgs/", "/members/", "">>, "json",
                    <<<<"role", "role">>>>,
                    <<>>, {})
      [] name = "orgs.teams.create" ->
            KwRoute("POST", <<"/api/v1/orgs/", "/teams">>, "json",
                    <<<<"name", "name">>>>,
                    <<<<"description", "description">>>>, {})
      [] name = "orgs.teams.add_member" ->
            KwRoute("POST", <<"/api/v1/orgs/", "/teams/", "/members">>, "json",
                    <<<<"userId", "user_id">>>>,
                    <<<<"role", "role">>>>, {})
      [] name = "orgs.create" ->
            KwRoute("POST", <<"/api/v1/orgs">>, "json",
                    <<<<"name", "name">>>>,
                    <<<<"displayName", "display_name">>>>, {})
      [] name = "orgs.update" ->
            KwRoute("PATCH", <<"/api/v1/orgs/", "">>, "json",
                    <<>>,
                    <<<<"displayName", "display_name">>, <<"settings", "settings">>>>, {})
      [] name = "marketplace.templates.list" ->
            KwRoute("GET", <<"/api/v1/marketplace/templates">>, "params",
                    <<>>,
                    <<<<"category", "category">>, <<"tags", "tags">>>>, {"tags"})
      [] name = "marketplace.templates.rate" ->
            KwRoute("POST", <<"/api/v1/marketplace/templates/", "/rate">>, "json",
                    <<<<"rating", "rating">>>>,
                    <<<<"review", "review">>>>, {})
      [] name = "integrations.register" ->
            KwRoute("POST", <<"/api/v1/integrations">>, "json",
                    <<<<"type", "type">>, <<"name", "name">>>>,
                    <<<<"credentials", "credentials">>>>, {})
      [] name = "integrations.execute" ->
            KwRoute("POST", <<"/api/v1/integrations/", "/execute">>, "json",
                    <<<<"action", "action">>>>,
                    <<<<"params", "params">>>>, {})
      [] name = "webhooks.create" ->
            KwRoute("POST", <<"/api/v1/webhooks">>, "json",
                    <<<<"url", "url">>, <<"events", "events">>>>,
                    <<<<"secret", "secret">>>>, {})
      [] name = "plugins.list" ->
            KwRoute("GET", <<"/api/v1/marketplace/plugins">>, "params",
                    <<>>,
                    <<<<"category", "category">>>>, {})

KwRouteOf(m, name) == IF m = "sync" THEN SyncKwRoute(name) ELSE AsyncKwRoute(name)

\* Mutant: if arg:
TestTruthy(v) == Truthy(v)

\* if arg is not None:
TestNotNone(v) == v # JNull

\* if arg is not None: d[key] = arg   -- for each optional argument in turn
RECURSIVE AddOptional(_, _, _, _)
AddOptional(d, optional, joined, kwargs) ==
    IF optional = <<>> THEN d
    ELSE LET key == Head(optional)[1]
             arg == Head(optional)[2]
             val == IF arg \in joined THEN JStr(JoinComma(kwargs[arg].v))
                    ELSE kwargs[arg]
             set == JDict([k \in DOMAIN d.v \cup {key} |->
                              IF k = key THEN val ELSE d.v[k]])
         IN  AddOptional(IF TestNotNone(kwargs[arg]) THEN set ELSE d,
                         Tail(optional), joined, kwargs)

\* The dict a method hands to the client's request method: the literal
\* {"key": arg, ...} of the required arguments, then the optional ones.
KwDict(route, kwargs) ==
    LET pairs == route.required
        literal == JDict([key \in {pairs[n][1] : n \in DOMAIN pairs} |->
                     kwargs[pairs[CHOOSE n \in DOMAIN pairs : pairs[n][1] = key][2]]])
    IN  AddOptional(literal, route.optional, route.joined, kwargs)

\* The keyword arguments drawn for a route: a string or 0 for a required
\* argument; None (the argument left out), False, 0, "" or "x" for an
\* optional one; None, [] or ["a", "b"] for a list of tags.
KwArgSets(route) ==
    LET required == {route.required[n][2] : n \in DOMAIN route.required}
        names == required \cup {route.optional[n][2] : n \in DOMAIN route.optional}
        reqValues == {JStr("r"), JNum(0)}
        optValues == {JNull, JBool(FALSE), JNum(0), JStr(""), JStr("x")}
        tagValues == {JNull, JList(<<>>), JList(<<JStr("a"), JStr("b")>>)}
    IN  {kw \in [names -> reqValues \cup optValues \cup tagValues] :
            \A a \in names :
                kw[a] \in (IF a \in required THEN reqValues
                           ELSE IF a \in route.joined THEN tagValues
                           ELSE optValues)}

\* A namespace method called with keyword arguments, run to its return or
\* raise: _get(path, params=d), or _post / _patch(path, json=d).
KwInvoke(name, ids, kwargs, r) ==
    LET route == KwRouteOf(mode, name)
        d == KwDict(route, kwargs)
        path == FillPath(route.pieces, ids)
    IN
    /\ pending = EmptyBag
    /\ lastReq' = [method |-> route.method,
                   path |-> path,
                   params |-> IF route.via = "params" THEN d ELSE NoBody,
                   json |-> IF route.via = "json" THEN d ELSE NoBody,
                   headers |-> Headers(token)]
    /\ nSent' = nSent + 1
    /\ outcome' = [call |-> name, args |-> ids, kwargs |-> kwargs, resp |-> r,
                   result |-> Normalize(mode, r)]
    /\ UNCHANGED <<mode, token, pending>>

(***************************************************************************)
(* Client instances.  Every AetherClient / AetherAsyncClient keeps its     *)
(* base URL, its token and its own HTTP connection pool in fields of the   *)
(* instance; close() and the context manager act on that pool.             *)
(***************************************************************************)
ClientIds == {1, 2}

\* base_url arguments, a trailing "/" being a piece of its own.
BaseUrlArgs == {<<"http://a:3000">>, <<"http://b:3000", "/", "/">>}

\* base_url arguments spelled character by character, up to MaxUrlLen
\* characters: the empty string, slashes alone, slashes inside and at the end.
MaxUrlLen == 3
UrlArgs == UNION {[1..n -> {"a", "/"}] : n \in 0..MaxUrlLen}

\* Mutant: one trailing "/" is removed.
RStripOneSlash(ps) ==
    IF ps # <<>> /\ ps[Len(ps)] = "/" THEN SubSeq(ps, 1, Len(ps) - 1) ELSE ps

\* str.rstrip("/")
RECURSIVE RStripSlash(_)
RStripSlash(ps) ==
    IF ps # <<>> /\ ps[Len(ps)] = "/"
    THEN RStripSlash(SubSeq(ps, 1, Len(ps) - 1))
    ELSE ps

NoSubscription == [owner |-> 0]
NoException == "none"

\* __init__: the fields of a new instance; base_url_arg is the argument the
\* constructor was called with, which the instance does not keep.
NewClient(m, urlArg, tok) ==
    [mode |-> m,
     base_url_arg |-> urlArg,
     base_url |-> RStripSlash(urlArg),
     token |-> tok,
     http |-> "open",
     lastReq |-> NoRequest,
     outcome |-> NoOutcome,
     block |-> "none",
     raised |-> NoException,
     propagated |-> NoException]

InstancesInit ==
    /\ clients = [i \in ClientIds |->
                    NewClient(IF i = 1 THEN "sync" ELSE "async",
                              <<"http://a:3000">>, JNull)]
    /\ sub = NoSubscription
    /\ opened = <<>>
    /\ pulls = <<>>

\* Mutant: the token is kept in a class attribute, shared by all instances.
StoreTokenShared(cs, i, t) == [j \in DOMAIN cs |-> [cs[j] EXCEPT !.token = t]]

\* self._token = t
StoreToken(cs, i, t) == [cs EXCEPT ![i].token = t]

\* client i: set_token(t)
InstSetToken(i, t) ==
    /\ clients' = StoreToken(clients, i, t)
    /\ UNCHANGED <<sub, opened, pulls>>

\* The instances after client i ran a request method (or login, when call is
\* "login") to its end on response r.
AfterCall(cs, i, call, method, path, body, r) ==
    LET c == cs[i]
        req == Request(method, path, body, Headers(c.token))
        result == Normalize(c.mode, r)
        tok == IF call = "login" THEN LoginToken(c.token, result) ELSE c.token
    IN  StoreToken([cs EXCEPT ![i].lastReq = req,
                              ![i].outcome = [call |-> call, resp |-> r,
                                              result |-> result]],
                   i, tok)

InstCall(i, call, method, path, body, r) ==
    /\ clients[i].http = "open"
    /\ clients' = AfterCall(clients, i, call, method, path, body, r)
    /\ UNCHANGED <<sub, opened, pulls>>

InstLogin(i, username, password, r) ==
    InstCall(i, "login", "POST", LoginPath, LoginBody(username, password), r)

\* Mutant: close() also clears the token.
ClosedClientCleared(c) == [c EXCEPT !.http = "closed", !.token = JNull]

\* close(): self._http.close() / await self._http.aclose()
ClosedClient(c) == [c EXCEPT !.http = "closed"]

InstClose(i) ==
    /\ clients' = [clients EXCEPT ![i] = ClosedClient(clients[i])]
    /\ UNCHANGED <<sub, opened, pulls>>

\* __enter__ / __aenter__: return self
InstEnter(i) ==
    /\ clients[i].block = "none"
    /\ clients[i].http = "open"
    /\ clients' = [clients EXCEPT ![i].block = "inside"]
    /\ UNCHANGED <<sub, opened, pulls>>

\* Mutant: __exit__ returns True.
ExitReturnTrue == JNum(1)

\* The value __exit__ / __aexit__ returns: the method ends without a return.
ExitReturn == JNull

\* The with statement: an exception of the block leaves the statement unless
\* __exit__ returned a true value.
Propagates(exc, ret) == IF Truthy(ret) THEN NoException ELSE exc

\* __exit__(*args) / __aexit__(*args): the block ends, normally or by raising
\* exc, and the client is closed.
InstExit(i, exc) ==
    /\ clients[i].block = "inside"
    /\ clients' = [clients EXCEPT
                     ![i] = [ClosedClient(clients[i]) EXCEPT
                               !.block = "exited",
                               !.raised = exc,
                               !.propagated = Propagates(exc, ExitReturn)]]
    /\ UNCHANGED <<sub, opened, pulls>>

(***************************************************************************)
(* A synchronous and an asynchronous client given the same calls and the   *)
(* same responses, and _handle_response as a method of the instance.       *)
(***************************************************************************)
\* Mutant: a failure response makes the normalizer drop the client's token.
HandleResponseLogout(c, r) ==
    [self |-> IF ~IsSuccess(r) THEN [c EXCEPT !.token = JNull] ELSE c,
     result |-> Normalize(c.mode, r)]

\* self._handle_response(response) on instance c: the instance after the
\* call, and what the call returned or raised.
HandleResponseOf(c, r) == [self |-> c, result |-> Normalize(c.mode, r)]

\* The instance after it applied _handle_response to r, and to r again.
AppliedTwice(c, r) ==
    LET first == HandleResponseOf(c, r)
        again == HandleResponseOf(first.self, r)
    IN  [again.self EXCEPT !.outcome = [call |-> "normalize", resp |-> r,
                                        result |-> first.result,
                                        again |-> again.result]]

BothSetToken(t) ==
    /\ clients' = StoreToken(StoreToken(clients, 1, t), 2, t)
    /\ UNCHANGED <<sub, opened, pulls>>

BothLogin(username, password, r) ==
    LET body == LoginBody(username, password) IN
    /\ clients' = AfterCall(AfterCall(clients, 1, "login", "POST", LoginPath, body, r),
                            2, "login", "POST", LoginPath, body, r)
    /\ UNCHANGED <<sub, opened, pulls>>

BothRequest(method, r) ==
    LET body == BodyOf(method) IN
    /\ clients' = AfterCall(AfterCall(clients, 1, "request", method, AgentsPath, body, r),
                            2, "request", method, AgentsPath, body, r)
    /\ UNCHANGED <<sub, opened, pulls>>

BothNormalizeTwice(r) ==
    /\ clients' = [i \in ClientIds |-> AppliedTwice(clients[i], r)]
    /\ UNCHANGED <<sub, opened, pulls>>

(***************************************************************************)
(* The life of an event stream (events.py, _EventsAccessor).  The stream   *)
(* is a generator: subscribe() creates it, the first pull runs it up to    *)
(* the opening of the connection, and it reads with an HTTP client of its  *)
(* own.                                                                    *)
(***************************************************************************)
MaxPulls == 3       \* pulls that give no event, in one run

\* Status lines answered to the stream-opening request.
OpenStatusLines == {<<200, "OK">>, <<302, "Found">>, <<401, "Unauthorized">>,
                    <<500, "Internal Server Error">>}

\* headers = {"Accept": "text/event-stream"}; if token: headers["Authorization"] = ...
StreamHeaders(tok) ==
    IF Truthy(tok)
    THEN [Accept |-> "text/event-stream", Authorization |-> "Bearer " \o PyStr(tok)]
    ELSE [Accept |-> "text/event-stream"]

\* url = base_url.rstrip("/") + "/api/v1/events"
EventsUrl(base) == Concat(RStripSlash(base)) \o "/api/v1/events"

\* Mutant: the status of the opening response is never looked at.
RaiseForStatusNever(r) == FALSE

\* event_source.response.raise_for_status(): raises httpx.HTTPStatusError
\* when the server returns a non-2xx status.
RaiseForStatus(r) == ~IsSuccess(r)

\* Mutant: the generator reads the client's token when it opens the connection.
StreamTokenLate(s, cs) == cs[s.owner].token

\* The token the generator sends: its token argument.
StreamToken(s, cs) == s.token

\* client i: events.subscribe(): subscribe_events(self._base_url,
\* token=self._get_token(), ...) creates the generator; none of its body runs.
Subscribe(i) ==
    /\ stream = "none"
    /\ stream' = "new"
    /\ sub' = [owner |-> i, base_url |-> clients[i].base_url,
               token |-> clients[i].token]
    /\ UNCHANGED <<lines, buffer, decoded, emitted, clients, opened, pulls>>

\* subscribe_events(base_url, token=tok) / subscribe_events_async called
\* directly, with no client: the generator holds its arguments as given.
SubscribeEvents(base, tok) ==
    /\ stream = "none"
    /\ stream' = "new"
    /\ sub' = [owner |-> 0, base_url |-> base, token |-> tok]
    /\ UNCHANGED <<lines, buffer, decoded, emitted, clients, opened, pulls>>

\* The consumer's first pull: the generator opens its own HTTP client and the
\* connection, the server answers with status line s, and a non-2xx status
\* is raised to the consumer; otherwise the stream is open and the pull waits
\* for the first event.
FirstPull(s) ==
    LET r == Response(s[1], s[2], TextBody("")) IN
    /\ stream = "new"
    /\ opened' = Append(opened,
                        [status |-> r.status,
                         url |-> EventsUrl(sub.base_url),
                         headers |-> StreamHeaders(StreamToken(sub, clients)),
                         conn |-> IF RaiseForStatus(r) THEN "closed" ELSE "open",
                         http |-> IF RaiseForStatus(r) THEN "closed" ELSE "open"])
    /\ IF RaiseForStatus(r)
       THEN stream' = "failed" /\ pulls' = Append(pulls, "error")
       ELSE stream' = "open" /\ pulls' = pulls
    /\ UNCHANGED <<lines, buffer, decoded, emitted, clients, sub>>

\* The consumer closes the generator (close() / aclose()): one that never
\* started just ends; one suspended at its yield gets GeneratorExit there and
\* leaves its with blocks.
GenClose ==
    /\ stream \in {"new", "suspended"}
    /\ stream' = "closed"
    /\ opened' = Released(opened)
    /\ UNCHANGED <<lines, buffer, decoded, emitted, clients, sub, pulls>>

\* The task awaiting the next event of an async stream is cancelled:
\* CancelledError is raised inside the generator, which leaves its async with
\* blocks, and reaches the consumer.
Cancel ==
    /\ stream = "open"
    /\ sub # NoSubscription
    /\ clients[sub.owner].mode = "async"
    /\ stream' = "closed"
    /\ opened' = Released(opened)
    /\ pulls' = Append(pulls, "cancelled")
    /\ UNCHANGED <<lines, buffer, decoded, emitted, clients, sub>>

\* A pull on a generator that has raised or returned: StopIteration, and
\* nothing of the generator runs.
PullEnded ==
    /\ stream \in {"failed", "ended", "closed"}
    /\ Len(pulls) < MaxPulls
    /\ pulls' = Append(pulls, "stop")
    /\ UNCHANGED <<lines, buffer, decoded, emitted, stream, clients, sub, opened>>

(***************************************************************************)
(* Specifications.                                                         *)
(***************************************************************************)
Init == ClientInit /\ SSEInit /\ InstancesInit

\* The client: a blocking client runs each call to its end; the async
\* client's calls suspend on the HTTP exchange and interleave.
Next ==
    \/ \E t \in SetTokens : SetToken(t) /\ UNCHANGED <<sseVars, instanceVars>>
    \/ \E r \in ClientResponses : mode = "sync" /\ Get(r) /\ UNCHANGED <<sseVars, instanceVars>>
    \/ \E r \in ClientResponses : mode = "sync" /\ Post(r) /\ UNCHANGED <<sseVars, instanceVars>>
    \/ \E r \in ClientResponses : mode = "sync" /\ Put(r) /\ UNCHANGED <<sseVars, instanceVars>>
    \/ \E r \in ClientResponses : mode = "sync" /\ Patch(r) /\ UNCHANGED <<sseVars, instanceVars>>
    \/ \E r \in ClientResponses : mode = "sync" /\ Delete(r) /\ UNCHANGED <<sseVars, instanceVars>>
    \/ \E u \in Usernames, p \in Passwords, r \in ClientResponses :
          mode = "sync" /\ Login(u, p, r) /\ UNCHANGED <<sseVars, instanceVars>>
    \/ \E m \in Methods : AsyncSendRequest(m) /\ UNCHANGED <<sseVars, instanceVars>>
    \/ \E u \in Usernames, p \in Passwords :
          AsyncSendLogin(u, p) /\ UNCHANGED <<sseVars, instanceVars>>
    \/ \E c \in BagToSet(pending), r \in ClientResponses :
          AsyncReceive(c, r) /\ UNCHANGED <<sseVars, instanceVars>>

Spec == Init /\ [][Next]_vars

\* The normalizer as a function of the response: every request method of
\* both clients, run to its end on every response of Responses.
NormalizeNext ==
    \/ \E r \in Responses : nSent < MaxNormalized /\ Get(r) /\ UNCHANGED <<sseVars, instanceVars>>
    \/ \E r \in Responses : nSent < MaxNormalized /\ Post(r) /\ UNCHANGED <<sseVars, instanceVars>>
    \/ \E r \in Responses : nSent < MaxNormalized /\ Put(r) /\ UNCHANGED <<sseVars, instanceVars>>
    \/ \E r \in Responses : nSent < MaxNormalized /\ Patch(r) /\ UNCHANGED <<sseVars, instanceVars>>
    \/ \E r \in Responses : nSent < MaxNormalized /\ Delete(r) /\ UNCHANGED <<sseVars, instanceVars>>

SpecNormalize == Init /\ [][NormalizeNext]_vars

\* The event stream reader on every sequence of lines up to MaxLines.
SSENext ==
    \/ \E p \in Payloads : DataLine(p) /\ UNCHANGED <<clientVars, instanceVars>>
    \/ BlankLine /\ UNCHANGED <<clientVars, instanceVars>>
    \/ NextPull /\ UNCHANGED <<clientVars, instanceVars>>
    \/ ServerClose /\ UNCHANGED <<clientVars, clients, sub, pulls>>

\* One client, built without a token, whose stream is read.
SSEOnlyInit ==
    /\ Init
    /\ mode = "sync"
    /\ token = JNull

SpecSSE == SSEOnlyInit /\ [][SSENext]_vars

\* One call of a namespace method, or of login, of either client, run to its
\* end from the state the client is constructed in.
NamespaceNext ==
    \/ /\ outcome = NoOutcome
       /\ \E name \in NsMethods, r \in NsResponses :
             \E args \in ArgTuples(RouteOf(mode, name)) :
                NsInvoke(name, args, r) /\ UNCHANGED <<sseVars, instanceVars>>
    \/ /\ outcome = NoOutcome
       /\ \E u \in Usernames, p \in Passwords, r \in ClientResponses :
             Login(u, p, r) /\ UNCHANGED <<sseVars, instanceVars>>

SpecNamespaces == Init /\ [][NamespaceNext]_vars

\* One client and the event stream subscribed through it: the stream is
\* created, pulled, fed by the server and ended, and the client is closed.
StreamInit ==
    /\ ClientInit
    /\ mode = "sync"
    /\ token = JNull
    /\ lines = <<>>
    /\ buffer = ""
    /\ decoded = <<>>
    /\ emitted = <<>>
    /\ stream = "none"
    /\ clients \in [ClientIds -> {NewClient(m, <<"http://a:3000">>, JStr("t0")) :
                                    m \in Modes}]
    /\ sub = NoSubscription
    /\ opened = <<>>
    /\ pulls = <<>>

StreamNext ==
    \/ \E i \in ClientIds : Subscribe(i) /\ UNCHANGED clientVars
    \/ \E s \in OpenStatusLines : FirstPull(s) /\ UNCHANGED clientVars
    \/ \E p \in {PA, PBad} : DataLine(p) /\ UNCHANGED <<clientVars, instanceVars>>
    \/ BlankLine /\ UNCHANGED <<clientVars, instanceVars>>
    \/ NextPull /\ UNCHANGED <<clientVars, instanceVars>>
    \/ ServerClose /\ UNCHANGED <<clientVars, clients, sub, pulls>>
    \/ GenClose /\ UNCHANGED clientVars
    \/ Cancel /\ UNCHANGED clientVars
    \/ PullEnded /\ UNCHANGED clientVars
    \/ \E i \in ClientIds : InstClose(i) /\ UNCHANGED <<clientVars, sseVars>>

SpecStream == StreamInit /\ [][StreamNext]_vars

\* Two clients of either class in one process, each constructed with its
\* own base URL and token; set_token, login, close and the with block act on
\* one of them at a time.
ConstructedInit ==
    /\ ClientInit
    /\ mode = "sync"
    /\ token = JNull
    /\ SSEInit
    /\ clients \in [ClientIds -> {NewClient(m, u, t) :
                       m \in Modes, u \in BaseUrlArgs, t \in InitTokens}]
    /\ sub = NoSubscription
    /\ opened = <<>>
    /\ pulls = <<>>

ClientsNext ==
    \/ \E i \in ClientIds, t \in SetTokens :
          InstSetToken(i, t) /\ UNCHANGED <<clientVars, sseVars>>
    \/ \E i \in ClientIds, u \in Usernames, p \in Passwords,
          r \in {Response(200, "OK",
                          JsonBody(JDict([token |-> JStr("jwt-1"),
                                          user |-> JDict([id |-> JStr("u1")])]))),
                 Response(401, "Unauthorized",
                          JsonBody(ErrXY("UNAUTHORIZED", "Invalid credentials")))} :
          InstLogin(i, u, p, r) /\ UNCHANGED <<clientVars, sseVars>>
    \/ \E i \in ClientIds : InstClose(i) /\ UNCHANGED <<clientVars, sseVars>>
    \/ \E i \in ClientIds : InstEnter(i) /\ UNCHANGED <<clientVars, sseVars>>
    \/ \E i \in ClientIds, exc \in {NoException, "ValueError"} :
          InstExit(i, exc) /\ UNCHANGED <<clientVars, sseVars>>

SpecClients == ConstructedInit /\ [][ClientsNext]_vars

\* A sync client and an async client constructed alike and driven in step.
PairInit ==
    /\ ClientInit
    /\ mode = "sync"
    /\ token = JNull
    /\ SSEInit
    /\ \E u \in BaseUrlArgs, t \in InitTokens :
          clients = [i \in ClientIds |->
                        NewClient(IF i = 1 THEN "sync" ELSE "async", u, t)]
    /\ sub = NoSubscription
    /\ opened = <<>>
    /\ pulls = <<>>

PairNext ==
    \/ \E t \in SetTokens : BothSetToken(t) /\ UNCHANGED <<clientVars, sseVars>>
    \/ \E u \in Usernames, p \in Passwords, r \in ClientResponses :
          BothLogin(u, p, r) /\ UNCHANGED <<clientVars, sseVars>>
    \/ \E m \in Methods, r \in ClientResponses :
          BothRequest(m, r) /\ UNCHANGED <<clientVars, sseVars>>

SpecPair == PairInit /\ [][PairNext]_vars

\* The normalizer of each class applied twice to every response of Responses,
\* by clients holding different tokens.
PureNext ==
    \/ \E t \in SetTokens : BothSetToken(t) /\ UNCHANGED <<clientVars, sseVars>>
    \/ \E r \in Responses :
          BothNormalizeTwice(r) /\ UNCHANGED <<clientVars, sseVars>>

SpecPure == PairInit /\ [][PureNext]_vars

\* One call of a namespace method with keyword arguments, of either client.
KwargsNext ==
    \/ /\ outcome = NoOutcome
       /\ \E name \in KwMethods, r \in NsResponses :
             \E ids \in [1..(Len(KwRouteOf(mode, name).pieces) - 1) -> FewIds] :
                \E kwargs \in KwArgSets(KwRouteOf(mode, name)) :
                   KwInvoke(name, ids, kwargs, r) /\ UNCHANGED <<sseVars, instanceVars>>

SpecKwargs == Init /\ [][KwargsNext]_vars

\* One client of either class through a session: set_token, login, requests,
\* an event stream subscribed and opened, and close, in every order.
\* Login is answered by the responses of ClientResponses or by a body with a
\* token beside or inside a data envelope.
SessionNext ==
    \/ \E t \in SetTokens : InstSetToken(1, t) /\ UNCHANGED <<clientVars, sseVars>>
    \/ LET enveloped == {
               Response(200, "OK", JsonBody(JDict([token |-> JStr("jwt-2"),
                                                   data |-> JDict([id |-> JStr("u1")])]))),
               Response(200, "OK", JsonBody(JDict([token |-> JStr("jwt-2"),
                                                   data |-> JDict([token |-> JStr("jwt-3")])]))),
               Response(200, "OK", JsonBody(JDict([data |-> JDict([token |-> JNull])]))) }
       IN  \E u \in Usernames, p \in Passwords,
              r \in ClientResponses \cup enveloped :
              InstLogin(1, u, p, r) /\ UNCHANGED <<clientVars, sseVars>>
    \/ \E m \in {"GET", "POST"}, r \in ClientResponses :
          InstCall(1, "request", m, AgentsPath, BodyOf(m), r)
             /\ UNCHANGED <<clientVars, sseVars>>
    \/ Subscribe(1) /\ UNCHANGED clientVars
    \/ \E s \in OpenStatusLines : FirstPull(s) /\ UNCHANGED clientVars
    \/ ServerClose /\ UNCHANGED <<clientVars, clients, sub, pulls>>
    \/ GenClose /\ UNCHANGED clientVars
    \/ InstClose(1) /\ UNCHANGED <<clientVars, sseVars>>

SessionInit ==
    /\ ClientInit
    /\ mode = "sync"
    /\ token = JNull
    /\ lines = <<>>
    /\ buffer = ""
    /\ decoded = <<>>
    /\ emitted = <<>>
    /\ stream = "none"
    /\ \E m \in Modes, t \in InitTokens :
          clients = [i \in ClientIds |-> NewClient(m, <<"http://a:3000">>, t)]
    /\ sub = NoSubscription
    /\ opened = <<>>
    /\ pulls = <<>>

SpecSession == SessionInit /\ [][SessionNext]_vars

\* The async client with logins of several users outstanding at once: the
\* server answers the login of user u with the token TokenFor(u), or refuses.
LoginUsers == {"admin", "bob"}
TokenFor(u) == JStr("jwt-" \o u)
LoginsInit ==
    /\ Init
    /\ mode = "async"

LoginsNext ==
    \/ \E t \in SetTokens : SetToken(t) /\ UNCHANGED <<sseVars, instanceVars>>
    \/ \E u \in LoginUsers, p \in Passwords :
          AsyncSendLogin(u, p) /\ UNCHANGED <<sseVars, instanceVars>>
    \/ \E c \in BagToSet(pending) :
          LET u == c.req.json.v["username"].v IN
          \E r \in {Response(200, "OK",
                              JsonBody(JDict([token |-> TokenFor(u),
                                              user |-> JDict([id |-> JStr(u)])]))),
                     Response(401, "Unauthorized",
                              JsonBody(ErrXY("UNAUTHORIZED", "Invalid credentials")))} :
             AsyncReceive(c, r) /\ UNCHANGED <<sseVars, instanceVars>>

SpecLogins == LoginsInit /\ [][LoginsNext]_vars

\* Clients constructed on every base_url of UrlArgs, and event streams
\* subscribed through a client or directly on every base_url of UrlArgs.
UrlNext ==
    \/ \E i \in ClientIds : Subscribe(i) /\ UNCHANGED clientVars
    \/ \E u \in UrlArgs, t \in InitTokens :
          SubscribeEvents(u, t) /\ UNCHANGED clientVars
    \/ \E s \in OpenStatusLines : FirstPull(s) /\ UNCHANGED clientVars

UrlInit ==
    /\ ClientInit
    /\ mode = "sync"
    /\ token = JNull
    /\ lines = <<>>
    /\ buffer = ""
    /\ decoded = <<>>
    /\ emitted = <<>>
    /\ stream = "none"
    /\ \E u1 \in UrlArgs, u2 \in UrlArgs :
          clients = [i \in ClientIds |->
                        IF i = 1 THEN NewClient("sync", u1, JNull)
                                 ELSE NewClient("async", u2, JStr("t0"))]
    /\ sub = NoSubscription
    /\ opened = <<>>
    /\ pulls = <<>>

SpecUrls == UrlInit /\ [][UrlNext]_vars

(***************************************************************************)
(* Properties of the response normalizer, checked under SpecNormalize.     *)
(***************************************************************************)
Called == outcome.call # "none"

\* The completed call received a 2xx response whose body parses as JSON.
SuccessJson == Called /\ IsSuccess(outcome.resp) /\ outcome.resp.body.json

\* The completed call received a non-2xx response.
Failure == Called /\ ~IsSuccess(outcome.resp)

ParsedBody == outcome.resp.body.value

\* C1: a 2xx response whose parsed body is a mapping with a top-level key
\* data makes every request method, of either client, return exactly the
\* value of body.data (null, empty or itself an envelope alike): one level
\* is unwrapped and the sibling keys are dropped.
C1_DataUnwrapped ==
    (SuccessJson /\ IsDict(ParsedBody) /\ HasKey(ParsedBody, "data"))
        => outcome.result = Return(ParsedBody.v["data"])

\* A PATCH of the async client answered 201 {"data": {"data": 1}} returned
\* the inner envelope {"data": 1}.
C1_Witness ==
    /\ mode = "async"
    /\ lastReq.method = "PATCH"
    /\ Called
    /\ outcome.resp = Response(201, "Created",
           JsonBody(JDict([data |-> JDict([data |-> JNum(1)])])))
    /\ outcome.result = Return(JDict([data |-> JNum(1)]))

\* C2: a 2xx response whose parsed body has no top-level key data (a
\* mapping without it, or a list, string, number or null) makes the request
\* method return the full parsed body unchanged.
C2_NoDataFullBody ==
    (SuccessJson /\ ~(IsDict(ParsedBody) /\ HasKey(ParsedBody, "data")))
        => outcome.result = Return(ParsedBody)

\* A GET of the sync client answered 200 {"result": {"data": 1}}, where data
\* occurs below the top level only, returned the whole body.
C2_Witness ==
    /\ mode = "sync"
    /\ lastReq.method = "GET"
    /\ Called
    /\ outcome.resp = Response(200, "OK",
           JsonBody(JDict([result |-> JDict([data |-> JNum(1)])])))
    /\ outcome.result = Return(JDict([result |-> JDict([data |-> JNum(1)])]))

\* The body is exactly {"error": {"code": X, "message": Y}}, X and Y strings.
IsErrorEnvelope(j) ==
    /\ IsDict(j)
    /\ DOMAIN j.v = {"error"}
    /\ IsDict(j.v["error"])
    /\ DOMAIN j.v["error"].v = {"code", "message"}
    /\ j.v["error"].v["code"].k = "str"
    /\ j.v["error"].v["message"].k = "str"

ErrorCodeOf(j) == j.v["error"].v["code"]
ErrorMessageOf(j) == j.v["error"].v["message"]

FailureWithEnvelope ==
    /\ Failure
    /\ outcome.resp.status >= 400 /\ outcome.resp.status <= 599
    /\ outcome.resp.body.json
    /\ IsErrorEnvelope(ParsedBody)

\* C3 as stated: a response with status in 400-599 and body
\* {"error": {"code": X, "message": Y}} raises an AetherError with code X,
\* message Y and the response status, for all strings X and Y.
C3_AllStrings ==
    FailureWithEnvelope
        => outcome.result = RaiseAetherError(ErrorMessageOf(ParsedBody),
                                             ErrorCodeOf(ParsedBody),
                                             outcome.resp.status)

\* C3 amended: the same for all non-empty strings X and Y.
C3_NonEmptyStrings ==
    (/\ FailureWithEnvelope
     /\ ErrorCodeOf(ParsedBody).v # ""
     /\ ErrorMessageOf(ParsedBody).v # "")
        => outcome.result = RaiseAetherError(ErrorMessageOf(ParsedBody),
                                             ErrorCodeOf(ParsedBody),
                                             outcome.resp.status)

\* A 404 with code AGENT_NOT_FOUND and message "No such agent" raised the
\* AetherError carrying both and status 404.
C3_Witness ==
    /\ Called
    /\ outcome.resp = Response(404, "Not Found",
           JsonBody(ErrXY("AGENT_NOT_FOUND", "No such agent")))
    /\ outcome.result = RaiseAetherError(JStr("No such agent"),
                                         JStr("AGENT_NOT_FOUND"), 404)

\* C4: a failure response whose body is empty or not valid JSON raises an
\* AetherError with code "HTTP_<status>", message
\* "HTTP <status>: <reason phrase>" and the response status; the parse
\* failure is not propagated.
C4_HttpFallbacks ==
    (Failure /\ ~outcome.resp.body.json)
        => outcome.result =
             RaiseAetherError(
                 JStr("HTTP " \o ToString(outcome.resp.status) \o ": "
                              \o outcome.resp.reason),
                 JStr("HTTP_" \o ToString(outcome.resp.status)),
                 outcome.resp.status)

\* A 500 with the text body "Internal Server Error" raised
\* AetherError("HTTP 500: Internal Server Error", code "HTTP_500", 500).
C4_Witness ==
    /\ Called
    /\ outcome.resp = Response(500, "Internal Server Error",
                               TextBody("Internal Server Error"))
    /\ outcome.result = RaiseAetherError(JStr("HTTP 500: Internal Server Error"),
                                         JStr("HTTP_500"), 500)

\* C5: every non-2xx response, whatever its body, raises an AetherError and
\* no other exception, whose message and code are non-empty and whose
\* status is the response status.
C5_AlwaysAetherError ==
    Failure
        => /\ outcome.result.kind = "raise"
           /\ outcome.result.exc = "AetherError"
           /\ Truthy(outcome.result.message)
           /\ Truthy(outcome.result.code)
           /\ outcome.result.status = outcome.resp.status

(***************************************************************************)
(* Properties of the namespace methods, checked under SpecNamespaces.      *)
(***************************************************************************)
\* The percent-encoding of a character when no character is exempted:
\* unreserved characters stand for themselves, every other is %XX.
EncodedForm(ch) ==
    CASE ch = "/" -> "%2F"
      [] ch = "?" -> "%3F"
      [] ch = "%" -> "%25"
      [] ch = " " -> "%20"
      [] OTHER -> ch

PercentEncoded(chars) == [k \in 1..Len(chars) |-> EncodedForm(chars[k])]

FsMethodOf(name) ==
    CASE name = "fs.read" -> "GET"
      [] name = "fs.write" -> "PUT"
      [] name = "fs.delete" -> "DELETE"

\* C11: for every path string, fs.read, fs.write and fs.delete of either
\* client request /api/v1/fs/<segment>, the segment being the path
\* percent-encoded with no character exempted: every "/" is sent as %2F, so
\* one segment follows /api/v1/fs/.
C11_FsPathOneSegment ==
    (Called /\ outcome.call \in {"fs.read", "fs.write", "fs.delete"})
        => LET segment == PercentEncoded(outcome.args[1]) IN
           /\ lastReq.method = FsMethodOf(outcome.call)
           /\ lastReq.path = "/api/v1/fs/" \o Concat(segment)
           /\ \A k \in 1..Len(segment) : segment[k] \notin {"/", "?"}
           /\ \A k \in 1..Len(segment) :
                 outcome.args[1][k] = "/" => segment[k] = "%2F"

\* fs.write of the async client with the path "a/a" sent PUT /api/v1/fs/a%2Fa.
C11_Witness ==
    /\ mode = "async"
    /\ Called
    /\ outcome.call = "fs.write"
    /\ outcome.args = <<(<<"a", "/", "a">>)>>
    /\ lastReq.method = "PUT"
    /\ lastReq.path = "/api/v1/fs/a%2Fa"

\* A step in which a namespace method or login runs from call to end.
CallStep == outcome' # outcome \/ nSent' # nSent \/ lastReq' # lastReq

\* The call issued one request.
OneRequestPerCall == CallStep => nSent' = nSent + 1

\* C19: every namespace method call and every login call issues exactly one
\* HTTP request, success or failure, and exactly one AetherError is created
\* per failed request (none for a request that succeeded).
C19_OneRequestOneError ==
    [][/\ OneRequestPerCall
       /\ (CallStep /\ ~IsSuccess(outcome'.resp))
             => (outcome'.result.kind = "raise"
                 /\ outcome'.result.exc = "AetherError")
       /\ (CallStep /\ IsSuccess(outcome'.resp))
             => ~(outcome'.result.kind = "raise"
                  /\ outcome'.result.exc = "AetherError")]_vars

\* C20: every namespace method that places caller-supplied strings in the
\* URL path percent-encodes each with no character exempted, so that each
\* argument occupies one path segment and no "/" or "?" of an argument
\* reaches the path.
C20_AllIdsPercentEncoded ==
    (Called /\ outcome.call \in NsMethods)
        => lastReq.path =
              FillPath(RouteOf(mode, outcome.call).pieces,
                       [k \in 1..Len(outcome.args) |->
                           PercentEncoded(outcome.args[k])])

(***************************************************************************)
(* Properties of the life of an event stream, checked under SpecStream.    *)
(***************************************************************************)
OpenRefused ==
    opened # <<>> /\ ~(opened[1].status >= 200 /\ opened[1].status <= 299)

\* C12: when the events endpoint answers the stream-opening request with a
\* non-2xx status, the stream raises one error on the first pull, yields no
\* event before or after it, and is terminal: later pulls end the iteration
\* and no new request is sent.
C12_OpenFailureTerminal ==
    OpenRefused
        => /\ stream = "failed"
           /\ Len(opened) = 1
           /\ emitted = <<>>
           /\ decoded = <<>>
           /\ pulls # <<>>
           /\ pulls[1] = "error"
           /\ \A k \in 2..Len(pulls) : pulls[k] = "stop"

\* The opening request was answered 401: the first pull raised, two more
\* pulls ended the iteration, and one request was sent in all.
C12_Witness ==
    /\ Len(opened) = 1
    /\ opened[1].status = 401
    /\ pulls = <<"error", "stop", "stop">>
    /\ emitted = <<>>

\* C13: closing the client terminates every event stream that was opened
\* through client.events.subscribe() and is still open: once the client is
\* closed the stream's connection is closed and no further event is yielded.
C13_CloseEndsStreams ==
    (sub # NoSubscription /\ clients[sub.owner].http = "closed")
        => stream \notin {"open", "suspended"}

(***************************************************************************)
(* Properties of client instances, checked under SpecClients.              *)
(***************************************************************************)
\* The with block of client i ends in this step.
BlockExits(i) == clients[i].block = "inside" /\ clients'[i].block = "exited"

\* C14: after the with / async with block of a client exits, normally or
\* because the block raised, the client's HTTP connection pool is closed, an
\* exception raised in the block is not suppressed, and the token is
\* unchanged by closing.
C14_BlockExitCloses ==
    [][\A i \in ClientIds :
          BlockExits(i) =>
             /\ clients'[i].http = "closed"
             /\ clients'[i].propagated = clients'[i].raised
             /\ clients'[i].token = clients[i].token]_vars

\* The async client's block raised ValueError while the token was "t1": the
\* pool is closed, ValueError left the block and the token is still "t1".
C14_Witness ==
    /\ clients[2].mode = "async"
    /\ clients[2].block = "exited"
    /\ clients[2].raised = "ValueError"
    /\ clients[2].propagated = "ValueError"
    /\ clients[2].http = "closed"
    /\ clients[2].token = JStr("t1")

\* C16: client instances are independent: set_token, login or close on one
\* client never changes the token, the base URL, the Authorization header
\* or the open/closed state of another.
C16_ClientsIndependent ==
    [][\A i \in ClientIds : \A j \in ClientIds \ {i} :
          clients'[i] # clients[i] =>
             /\ clients'[j].token = clients[j].token
             /\ clients'[j].base_url = clients[j].base_url
             /\ Headers(clients'[j].token) = Headers(clients[j].token)
             /\ clients'[j].http = clients[j].http]_vars

\* Client 1 logged in and was closed; client 2 still holds the token it was
\* constructed with, its own base URL, and is open.
C16_Witness ==
    /\ clients[1].token = JStr("jwt-1")
    /\ clients[1].outcome.call = "login"
    /\ clients[1].http = "closed"
    /\ clients[1].base_url = <<"http://a:3000">>
    /\ clients[2].token = JStr("t0")
    /\ clients[2].base_url = <<"http://b:3000">>
    /\ clients[2].http = "open"
    /\ clients[2].outcome = NoOutcome

(***************************************************************************)
(* Properties of the two client classes side by side, checked under        *)
(* SpecPair and SpecPure.                                                  *)
(***************************************************************************)
\* C17: the synchronous and the asynchronous client are symmetric: on every
\* response they produce the same outcome (the same returned value, or the
\* same error with the same message, code and status), and after the same
\* set_token / login calls answered by the same responses they hold the
\* same token and send the same Authorization header.
C17_SyncAsyncSymmetric ==
    /\ clients[1].mode = "sync" /\ clients[2].mode = "async"
    /\ clients[1].outcome = clients[2].outcome
    /\ clients[1].token = clients[2].token
    /\ clients[1].lastReq = clients[2].lastReq
    /\ Headers(clients[1].token) = Headers(clients[2].token)
    /\ \A r \in Responses : HandleResponse(r) = AsyncHandleResponse(r)

\* Both clients logged in on {"token": "jwt-1", "user": ...}, hold "jwt-1",
\* and then both raised the same AetherError on a 401.
C17_Witness ==
    /\ clients[1].token = JStr("jwt-1")
    /\ clients[2].token = JStr("jwt-1")
    /\ clients[1].lastReq.headers = [Authorization |-> "Bearer jwt-1"]
    /\ clients[2].lastReq.headers = [Authorization |-> "Bearer jwt-1"]
    /\ clients[1].outcome.call = "request"
    /\ clients[1].outcome.result =
          RaiseAetherError(JStr("Invalid token"), JStr("UNAUTHORIZED"), 401)
    /\ clients[2].outcome.result = clients[1].outcome.result

\* _handle_response is applied twice in this step.
NormalizesTwice(i) ==
    clients'[i].outcome # clients[i].outcome /\ clients'[i].outcome.call = "normalize"

SendStep == nSent' = nSent + 1

\* A step in which login returns or raises: the sync client's whole call, or
\* the async client's suspended login resuming on its response.
SyncLoginStep == mode = "sync" /\ SendStep /\ outcome'.call = "login"
AsyncLoginResumes ==
    /\ mode = "async"
    /\ BagCardinality(pending') < BagCardinality(pending)
    /\ outcome'.call = "login"
LoginReturns == SyncLoginStep \/ AsyncLoginResumes

\* The completed call o is a login answered 2xx with body {token: T, user: U}.
LoginAnswered(o) ==
    /\ o.call = "login"
    /\ IsSuccess(o.resp)
    /\ o.resp.body.json
    /\ IsDict(o.resp.body.value)
    /\ DOMAIN o.resp.body.value.v = {"token", "user"}

LoginT(o) == o.resp.body.value.v["token"]

IsLoginRequest(q) ==
    /\ q.method = "POST"
    /\ q.path = "/api/auth/login"
    /\ \E u \in Usernames, p \in Passwords :
          q.json = JDict([username |-> JStr(u), password |-> JStr(p)])

\* Login stores T and returns the body as it is.
LoginStoresAndReturns ==
    (LoginReturns /\ LoginAnswered(outcome'))
        => /\ token' = LoginT(outcome')
           /\ outcome'.result = Return(outcome'.resp.body.value)

\* Login sent one request, the POST of the credentials.
LoginSendsOnePost ==
    /\ SyncLoginStep => IsLoginRequest(lastReq')
    /\ AsyncLoginResumes =>
          /\ nSent' = nSent
          /\ \E c \in BagToSet(pending) :
                /\ c.call = "login"
                /\ IsLoginRequest(c.req)
                /\ pending' = pending (-) SetToBag({c})
    /\ (mode = "async" /\ SendStep) =>
          \E call \in {"login", "request"} :
             /\ pending' = pending (+) SetToBag({[call |-> call, req |-> lastReq']})
             /\ call = "login" <=> lastReq'.path = "/api/auth/login"

\* A request is sent after a login answered with T, the token still being T.
SendAfterLogin == SendStep /\ LoginAnswered(outcome) /\ token = LoginT(outcome)

\* C6 as stated: after login receives a 2xx response {token: T, user: U} the
\* held token is T, login returns the full body, one POST /api/auth/login
\* with body {username, password} was sent, and every request issued
\* afterwards carries Authorization: Bearer T.
C6_BearerAfterLogin ==
    [][/\ LoginStoresAndReturns
       /\ LoginSendsOnePost
       /\ SendAfterLogin =>
            lastReq'.headers =
                [Authorization |-> "Bearer " \o PyStr(LoginT(outcome))]]_vars

\* C6 amended: the same, the requests issued afterwards carrying
\* Authorization: Bearer T when T is a non-empty string and no Authorization
\* header when T is empty or null.
C6_BearerAfterLoginNonEmpty ==
    [][/\ LoginStoresAndReturns
       /\ LoginSendsOnePost
       /\ SendAfterLogin =>
            lastReq'.headers =
                IF LoginT(outcome).k = "str" /\ LoginT(outcome).v # ""
                THEN [Authorization |-> "Bearer " \o LoginT(outcome).v]
                ELSE NoHeaders]_vars

\* A login answered {"token": "jwt-1", "user": {"id": "u1"}} returned that
\* body, the token is "jwt-1", and the request sent next carried
\* Authorization: Bearer jwt-1.
C6_Witness ==
    /\ outcome.call = "login"
    /\ outcome.resp.body = JsonBody(JDict([token |-> JStr("jwt-1"),
                                           user |-> JDict([id |-> JStr("u1")])]))
    /\ outcome.result = Return(JDict([token |-> JStr("jwt-1"),
                                      user |-> JDict([id |-> JStr("u1")])]))
    /\ token = JStr("jwt-1")
    /\ nSent >= 2
    /\ lastReq.path = "/api/v1/agents"
    /\ lastReq.headers = [Authorization |-> "Bearer jwt-1"]

\* C7 as stated: every request a client method sends carries
\* Authorization: Bearer <t> when the client holds a token t at the time of
\* the call, and no Authorization header when no token is set (None).
C7_BearerIffTokenHeld ==
    [][SendStep =>
          lastReq'.headers =
              IF token # JNull
              THEN [Authorization |-> "Bearer " \o PyStr(token)]
              ELSE NoHeaders]_vars

\* C7 amended: the header is Bearer <t> when the held token t is a non-empty
\* string, and absent when the token is None or the empty string.
C7_BearerIffTokenNonEmpty ==
    [][SendStep =>
          /\ (token.k = "str" /\ token.v # "")
                => lastReq'.headers = [Authorization |-> "Bearer " \o token.v]
          /\ (token = JNull \/ token = JStr(""))
                => "Authorization" \notin DOMAIN lastReq'.headers]_vars

\* After set_token("t1") a DELETE carried Authorization: Bearer t1.
C7_Witness ==
    /\ token = JStr("t1")
    /\ lastReq.method = "DELETE"
    /\ lastReq.headers = [Authorization |-> "Bearer t1"]

\* The token changes in this step (set_token, or a login storing a token).
TokenUpdated == token' # token

\* The requests outstanding after the step were outstanding before it, as
\* they were sent.
IssuedUntouched ==
    /\ lastReq' = lastReq
    /\ \A c \in BagToSet(pending') :
          CopiesIn(c, pending') <= CopiesIn(c, pending)

\* The tokens a client can have been given: by the constructor, by
\* set_token, or in the result of a login.
EverTokens ==
    InitTokens \cup SetTokens
    \cup {LoginToken(JNull, Normalize(m, r)) : m \in Modes, r \in ClientResponses}

\* Every request sent or outstanding carries a header made of such a token.
HeadersFromTokens ==
    /\ lastReq # NoRequest => \E t \in EverTokens : lastReq.headers = Headers(t)
    /\ \A c \in BagToSet(pending) : \E t \in EverTokens : c.req.headers = Headers(t)

\* C15 as stated: in the asynchronous client each request carries in its
\* Authorization header exactly the token current when it built its
\* headers; a later token update never alters a request already issued, a
\* request issued after the update carries the new token, and no request
\* carries a value that was never the client's token.
C15_TokenAtSend ==
    [][mode = "async" =>
          /\ SendStep =>
                (token # JNull =>
                    lastReq'.headers = [Authorization |-> "Bearer " \o PyStr(token)])
          /\ TokenUpdated => IssuedUntouched
          /\ HeadersFromTokens']_vars

\* C15 amended: the same, a request built while the token is None or the
\* empty string carrying no Authorization header.
C15_NonEmptyTokenAtSend ==
    [][mode = "async" =>
          /\ SendStep =>
                IF token.k = "str" /\ token.v # ""
                THEN lastReq'.headers = [Authorization |-> "Bearer " \o token.v]
                ELSE lastReq'.headers = NoHeaders
          /\ TokenUpdated => IssuedUntouched
          /\ HeadersFromTokens']_vars

\* A request sent with "Bearer t0" is still outstanding after set_token("t1"),
\* together with a request sent after the update, which carries "Bearer t1".
C15_Witness ==
    /\ mode = "async"
    /\ token = JStr("t1")
    /\ \E c1, c2 \in BagToSet(pending) :
          /\ c1.req.headers = [Authorization |-> "Bearer t0"]
          /\ c2.req.headers = [Authorization |-> "Bearer t1"]

(***************************************************************************)
(* Properties of the event stream reader, checked under SpecSSE.           *)
(***************************************************************************)
\* The data texts of the records completed within the lines ls, in order: a
\* record is a run of data: lines ended by a blank line, and its text their
\* payloads one after the other.  cur is the text of the run in progress.
RECURSIVE RecordTexts(_, _)
RecordTexts(ls, cur) ==
    IF ls = <<>> THEN <<>>
    ELSE IF Head(ls).kind = "data"
         THEN RecordTexts(Tail(ls), cur \o Head(ls).payload)
         ELSE (IF cur = "" THEN <<>> ELSE <<cur>>) \o RecordTexts(Tail(ls), "")

WellFormed(text) == JsonLoads(text).kind = "return"

\* The decoded values of the well-formed texts among ts, in order.
RECURSIVE DecodedOf(_)
DecodedOf(ts) ==
    IF ts = <<>> THEN <<>>
    ELSE (IF WellFormed(Head(ts)) THEN <<JsonLoads(Head(ts)).value>> ELSE <<>>)
         \o DecodedOf(Tail(ts))

\* C8: on a stream made only of well-formed records the reader emits exactly
\* one event per record, the decoded JSON, in arrival order; a blank line
\* with no accumulated data emits nothing.
C8_OneEventPerRecord ==
    LET recs == RecordTexts(lines, "") IN
    (\A i \in 1..Len(recs) : WellFormed(recs[i]))
        => /\ Len(emitted) = Len(recs)
           /\ \A i \in 1..Len(recs) : emitted[i] = JsonLoads(recs[i]).value

\* A blank line first, then the records a and b: two events, a then b.
C8_Witness ==
    /\ lines = <<Blank, DataLineOf(PA), Blank, DataLineOf(PB)>>
                 \o <<Blank>>
    /\ emitted = <<EvA, EvB>>

\* C9: for every interleaving of malformed and well-formed records the
\* emitted sequence is the decoded well-formed records in arrival order: a
\* malformed record emits nothing, raises nothing, does not end the stream
\* and leaves nothing in the buffer.
C9_MalformedSkipped ==
    /\ emitted = DecodedOf(RecordTexts(lines, ""))
    /\ stream # "failed"
    /\ (lines # <<>> /\ lines[Len(lines)].kind = "blank") => buffer = ""

\* A malformed record, then a well-formed one: only the latter is emitted.
C9_Witness ==
    /\ lines = <<DataLineOf(PBad), Blank, DataLineOf(PA), Blank>>
    /\ emitted = <<EvA>>
    /\ stream = "suspended"

\* The data: lines at the end of ls, back to the last blank line.
RECURSIVE TrailingData(_)
TrailingData(ls) ==
    IF ls = <<>> \/ ls[Len(ls)].kind # "data" THEN <<>>
    ELSE Append(TrailingData(SubSeq(ls, 1, Len(ls) - 1)), ls[Len(ls)].payload)

\* A blank line arrives.
BlankStep == Len(lines') = Len(lines) + 1 /\ lines'[Len(lines')].kind = "blank"

\* C10: when a record carries its data in several consecutive data: lines,
\* the text decoded as JSON is their payloads concatenated in order with no
\* separator, and exactly one event is emitted for the record.
C10_MultiLineConcatenated ==
    [][(BlankStep /\ Len(TrailingData(lines)) >= 2) =>
          LET text == Concat(TrailingData(lines)) IN
          /\ decoded' = Append(decoded, text)
          /\ emitted' = IF WellFormed(text)
                        THEN Append(emitted, JsonLoads(text).value)
                        ELSE emitted]_vars

\* A record split inside a string literal over two data: lines is decoded
\* from the two payloads put together and emitted once.
C10_Witness ==
    /\ lines = <<DataLineOf(PSp1), DataLineOf(PSp2), Blank>>
    /\ decoded = <<PSp1 \o PSp2>>
    /\ emitted = <<EvSplit>>

(***************************************************************************)
(* The base URL, checked under SpecUrls.                                   *)
(***************************************************************************)
\* The length of u without its trailing "/" characters.
CutOf(u) ==
    CHOOSE k \in 0..Len(u) :
        /\ \A j \in (k + 1)..Len(u) : u[j] = "/"
        /\ k = 0 \/ u[k] # "/"
WithoutTrailingSlashes(u) == SubSeq(u, 1, CutOf(u))
EndsWithSlash(u) == u # <<>> /\ u[Len(u)] = "/"

\* C21: the base URL a client keeps is its base_url argument without its
\* trailing "/" characters and otherwise unchanged; it does not end with
\* "/", stripping it again changes nothing, and every connection an event
\* stream opens goes to <stripped base_url argument>/api/v1/events.
C21_BaseUrlStripped ==
    /\ \A i \in ClientIds :
          /\ clients[i].base_url = WithoutTrailingSlashes(clients[i].base_url_arg)
          /\ ~EndsWithSlash(clients[i].base_url)
          /\ RStripSlash(clients[i].base_url) = clients[i].base_url
    /\ \A k \in DOMAIN opened :
          /\ sub.owner = 0 =>
                opened[k].url =
                    Concat(WithoutTrailingSlashes(sub.base_url)) \o "/api/v1/events"
          /\ sub.owner \in ClientIds =>
                opened[k].url =
                    Concat(WithoutTrailingSlashes(clients[sub.owner].base_url_arg))
                        \o "/api/v1/events"

\* Clients built on "///" and on "/a/", and a stream subscribed directly on
\* "a//" that opened its connection.
C21_Witness ==
    /\ clients[1].base_url_arg = <<"/", "/", "/">>
    /\ clients[2].base_url_arg = <<"/", "a", "/">>
    /\ Len(opened) = 1
    /\ sub.owner = 0
    /\ sub.base_url = <<"a", "/", "/">>
    /\ opened[1].url = "a/api/v1/events"
(***************************************************************************)
(* A 2xx response that is not JSON, checked under Spec.                    *)
(***************************************************************************)
\* A step in which a call returns or raises: the sync client's whole call, or
\* a suspended call of the async client resuming on its response.
CallReturns ==
    \/ mode = "sync" /\ SendStep
    \/ mode = "async" /\ BagCardinality(pending') < BagCardinality(pending)

\* C22: a call answered with a 2xx response whose body is not valid JSON
\* raises the JSON parse error, not an AetherError, and returns no value;
\* the token is as it was before the call, a login included.
C22_ParseErrorPropagates ==
    [][(CallReturns /\ IsSuccess(outcome'.resp) /\ ~outcome'.resp.body.json)
          => /\ outcome'.result.kind = "raise"
             /\ outcome'.result.exc = "JSONDecodeError"
             /\ outcome'.result.exc # "AetherError"
             /\ token' = token]_vars

\* The sync client, holding "t1", called login and was answered 200 with an
\* empty body: JSONDecodeError, and the token is still "t1".
C22_Witness ==
    /\ mode = "sync"
    /\ outcome.call = "login"
    /\ outcome.resp = Response(200, "OK", TextBody(""))
    /\ outcome.result = Raise("JSONDecodeError")
    /\ token = JStr("t1")
(***************************************************************************)
(* Optional arguments of the namespace methods, checked under SpecKwargs.  *)
(***************************************************************************)
\* The dict the completed call sent, as query parameters or as JSON body.
SentDict ==
    IF lastReq.params # NoBody THEN lastReq.params ELSE lastReq.json
CalledRoute == KwRouteOf(mode, outcome.call)

\* C23: the request of a namespace method holds the key of an optional
\* argument exactly when the argument is not None, with the value given
\* (False, 0 and "" included; a list of tags joined by ","), holds every
\* required argument, and holds no other key; cron.update(id, enabled=False)
\* sends the body {enabled: false}.
C23_OptionalIffNotNone ==
    Called =>
        /\ IsDict(SentDict)
        /\ \A n \in DOMAIN CalledRoute.optional :
              LET key == CalledRoute.optional[n][1]
                  given == outcome.kwargs[CalledRoute.optional[n][2]]
              IN  /\ HasKey(SentDict, key) <=> given # JNull
                  /\ (given # JNull /\ given.k # "list") => SentDict.v[key] = given
                  /\ given = JList(<<>>) => SentDict.v[key] = JStr("")
                  /\ given = JList(<<JStr("a"), JStr("b")>>)
                        => SentDict.v[key] = JStr("a,b")
        /\ \A n \in DOMAIN CalledRoute.required :
              /\ HasKey(SentDict, CalledRoute.required[n][1])
              /\ SentDict.v[CalledRoute.required[n][1]]
                    = outcome.kwargs[CalledRoute.required[n][2]]
        /\ DOMAIN SentDict.v \subseteq
              {CalledRoute.optional[n][1] : n \in DOMAIN CalledRoute.optional}
                \cup {CalledRoute.required[n][1] : n \in DOMAIN CalledRoute.required}
        /\ (outcome.call = "cron.update" /\ outcome.kwargs["enabled"] = JBool(FALSE))
              => /\ lastReq.method = "PATCH"
                 /\ lastReq.json = JDict([enabled |-> JBool(FALSE)])
                 /\ lastReq.params = NoBody

\* cron.update("a", enabled=False) of the async client sent PATCH
\* /api/v1/cron/a with body {enabled: false}.
C23_Witness ==
    /\ mode = "async"
    /\ outcome.call = "cron.update"
    /\ outcome.kwargs = [enabled |-> JBool(FALSE)]
    /\ lastReq.path = "/api/v1/cron/a"
    /\ lastReq.json = JDict([enabled |-> JBool(FALSE)])
(***************************************************************************)
(* The end of an event stream, checked under SpecStream.                   *)
(***************************************************************************)
\* The server closes the connection of the stream in this step.
ServerCloses == stream = "open" /\ stream' = "ended"

\* The consumer closes the generator, or cancels the pull, in this step.
ConsumerCloses == stream \in {"new", "suspended", "open"} /\ stream' = "closed"

AllReleased(conns) ==
    \A k \in DOMAIN conns : conns[k].conn = "closed" /\ conns[k].http = "closed"

\* C24: when the server closes the connection the iteration ends with no
\* error; when the consumer closes the generator the connection and the
\* stream's HTTP client are closed; after either, no event is decoded or
\* produced, a pull only ends the iteration, and the stream has opened one
\* connection at most in all.
C24_StreamEnds ==
    [][/\ ServerCloses =>
            /\ pulls' = pulls
            /\ \A k \in DOMAIN pulls' : pulls'[k] # "error"
            /\ emitted' = emitted
            /\ AllReleased(opened')
       /\ ConsumerCloses =>
            /\ AllReleased(opened')
            /\ emitted' = emitted
            /\ Len(opened') = Len(opened)
       /\ stream \in {"ended", "closed"} =>
            /\ stream' = stream
            /\ emitted' = emitted
            /\ decoded' = decoded
            /\ lines' = lines
            /\ opened' = opened
            /\ pulls' \in {pulls, Append(pulls, "stop")}
       /\ Len(opened') <= 1]_vars

\* The stream gave the event a, the consumer closed the generator, and two
\* more pulls ended the iteration: one connection, closed with its client.
C24_Witness ==
    /\ stream = "closed"
    /\ emitted = <<EvA>>
    /\ Len(opened) = 1
    /\ opened[1].conn = "closed"
    /\ opened[1].http = "closed"
    /\ pulls = <<"stop", "stop">>
(***************************************************************************)
(* The stream as a lazy sequence, checked under SpecStream.                *)
(***************************************************************************)
\* C25: subscribe() sends nothing; the connection is opened by the first
\* pull and by no other step, once at most; records are read and decoded
\* only while a pull is in progress, a pull gives one event and the
\* generator then waits for the next pull; a stream that ended, failed or
\* was closed stays as it is.
C25_LazyPullDriven ==
    [][/\ stream \in {"none", "new"} =>
            opened = <<>> /\ decoded = <<>> /\ emitted = <<>>
       /\ (stream = "none" /\ stream' = "new") => opened' = <<>>
       /\ Len(opened') # Len(opened) =>
            /\ stream = "new"
            /\ opened = <<>>
            /\ Len(opened') = 1
       /\ (decoded' # decoded \/ lines' # lines) => stream = "open"
       /\ stream = "suspended" =>
            /\ decoded' = decoded
            /\ emitted' = emitted
            /\ lines' = lines
            /\ stream' \in {"suspended", "open", "closed"}
       /\ emitted' # emitted =>
            /\ stream = "open"
            /\ Len(emitted') = Len(emitted) + 1
            /\ SubSeq(emitted', 1, Len(emitted)) = emitted
            /\ stream' = "suspended"
       /\ stream \in {"ended", "failed", "closed"} => stream' = stream]_vars

\* Two pulls gave the event a twice over one connection, and the generator
\* waits at its yield for the third pull.
C25_Witness ==
    /\ lines = <<DataLineOf(PA), Blank, DataLineOf(PA), Blank>>
    /\ emitted = <<EvA, EvA>>
    /\ Len(opened) = 1
    /\ opened[1].conn = "open"
    /\ stream = "suspended"
(***************************************************************************)
(* What changes the token, checked under SpecSession.                      *)
(***************************************************************************)
\* The step changes nothing of client i but its token.
OnlyTokenSet(i) == clients' = [clients EXCEPT ![i].token = clients'[i].token]

\* Client i completes a call in this step (a login repeated with the same
\* token held and the same response shows as a change of nothing but the
\* token).
CallDone(i) ==
    /\ clients'[i].outcome.call # "none"
    /\ \/ clients'[i].outcome # clients[i].outcome
       \/ clients'[i].lastReq # clients[i].lastReq

\* C26: a client's token differs after a step only if the step is set_token
\* or a login that returned; a login that raised (AetherError or parse
\* error), a request that returned or raised, events.subscribe, every step of
\* the stream, and close leave it as it was.
C26_TokenFrame ==
    [][\A i \in ClientIds :
          /\ clients'[i].token # clients[i].token =>
                \/ OnlyTokenSet(i) /\ clients'[i].token \in SetTokens
                \/ /\ CallDone(i) \/ OnlyTokenSet(i)
                   /\ clients'[i].outcome.call = "login"
                   /\ clients'[i].outcome.result.kind = "return"
                   /\ IsSuccess(clients'[i].outcome.resp)
          /\ (CallDone(i) /\ clients'[i].outcome.result.kind = "raise")
                => clients'[i].token = clients[i].token
          /\ (CallDone(i) /\ clients'[i].outcome.call = "request")
                => clients'[i].token = clients[i].token
          /\ (stream' # stream \/ sub' # sub \/ opened' # opened)
                => clients'[i].token = clients[i].token
          /\ clients'[i].http # clients[i].http
                => clients'[i].token = clients[i].token]_vars

\* The async client holds "t1" after a login that raised on 401, with a
\* stream subscribed and opened and the client closed.
C26_Witness ==
    /\ clients[1].mode = "async"
    /\ clients[1].token = JStr("t1")
    /\ clients[1].outcome.call = "login"
    /\ clients[1].outcome.resp.status = 401
    /\ clients[1].outcome.result.kind = "raise"
    /\ clients[1].http = "closed"
    /\ stream = "open"
(***************************************************************************)
(* What login stores, checked under SpecSession.                           *)
(***************************************************************************)
\* Client i completes a login answered 2xx with a JSON body in this step.
LoginSucceeds(i) ==
    /\ CallDone(i)
    /\ clients'[i].outcome.call = "login"
    /\ IsSuccess(clients'[i].outcome.resp)
    /\ clients'[i].outcome.resp.body.json

\* The body without its data envelope.
Unwrapped(body) ==
    IF body.k = "dict" /\ "data" \in DOMAIN body.v THEN body.v["data"] ELSE body

ValidToken(t) == t.k = "str" /\ t.v # ""

\* login returns the body without its data envelope and stores the token of
\* that value, whatever it is, when that value is a mapping with key token.
LoginDecidesOnResult(i) ==
    LoginSucceeds(i) =>
        LET result == Unwrapped(clients'[i].outcome.resp.body.value) IN
        /\ clients'[i].outcome.result = Return(result)
        /\ clients'[i].token =
              IF result.k = "dict" /\ "token" \in DOMAIN result.v
              THEN result.v["token"]
              ELSE clients[i].token

\* C27 as stated: login decides on the result after data-unwrapping and
\* stores result["token"] whatever its value, and a successful login never
\* leaves the client with a null or empty token when it held a valid one.
C27_LoginNeverLosesToken ==
    [][\A i \in ClientIds :
          /\ LoginDecidesOnResult(i)
          /\ (LoginSucceeds(i) /\ ValidToken(clients[i].token))
                => ValidToken(clients'[i].token)]_vars

\* C27 amended: login decides on the result after data-unwrapping and
\* stores result["token"] whatever its value; a successful login whose
\* result holds a null or empty token replaces a valid token by it.
C27_LoginStoresResultToken ==
    [][\A i \in ClientIds :
          /\ LoginDecidesOnResult(i)
          /\ (LoginSucceeds(i) /\ ValidToken(clients[i].token)
                 /\ ~ValidToken(clients'[i].token))
                => LET result == Unwrapped(clients'[i].outcome.resp.body.value) IN
                   /\ result.k = "dict"
                   /\ "token" \in DOMAIN result.v
                   /\ result.v["token"] = clients'[i].token]_vars

\* A client holding "t1" logged in and was answered {token: "jwt-2", data:
\* {id: "u1"}}: login returned {id: "u1"} and the token is still "t1".
C27_Witness ==
    /\ clients[1].outcome.call = "login"
    /\ clients[1].outcome.resp.body =
          JsonBody(JDict([token |-> JStr("jwt-2"),
                          data |-> JDict([id |-> JStr("u1")])]))
    /\ clients[1].outcome.result = Return(JDict([id |-> JStr("u1")]))
    /\ clients[1].token = JStr("t1")
(***************************************************************************)
(* The token an event stream sends, checked under SpecSession.             *)
(***************************************************************************)
\* events.subscribe() is called in this step.
SubscribeStep == stream = "none" /\ stream' = "new"

\* The stream opens its connection in this step.
OpenStep == Len(opened') = Len(opened) + 1

\* C28: the stream is given the token its client held when subscribe() was
\* called and keeps it; the connection opened by the first pull carries
\* Authorization: Bearer <that token>, or no Authorization header when that
\* token was None (or empty), whatever set_token and login did to the
\* client's token since; the headers of an open connection never change.
C28_StreamTokenAtSubscribe ==
    [][/\ SubscribeStep => sub'.token = clients[sub'.owner].token
       /\ stream # "none" => sub' = sub
       /\ OpenStep =>
            opened'[Len(opened')].headers =
                IF ValidToken(sub.token)
                THEN [Accept |-> "text/event-stream",
                      Authorization |-> "Bearer " \o sub.token.v]
                ELSE [Accept |-> "text/event-stream"]
       /\ \A k \in DOMAIN opened :
            opened'[k].headers = opened[k].headers]_vars

\* Subscribed while the client held "t0"; the client has since logged in
\* and been given "t1" by set_token: the stream sent Bearer t0.
C28_Witness ==
    /\ stream = "open"
    /\ sub.token = JStr("t0")
    /\ clients[1].token = JStr("t1")
    /\ clients[1].outcome.call = "login"
    /\ clients[1].outcome.result.kind = "return"
    /\ clients[1].lastReq.headers = [Authorization |-> "Bearer t0"]
    /\ opened[1].headers = [Accept |-> "text/event-stream",
                            Authorization |-> "Bearer t0"]
(***************************************************************************)
(* Logins of the async client outstanding at once, checked under           *)
(* SpecLogins.                                                             *)
(***************************************************************************)
\* A suspended login resumes on a 2xx response in this step.
LoginResumesOk == AsyncLoginResumes /\ IsSuccess(outcome'.resp)

\* C29: each login that resumes on its 2xx response stores the token of that
\* response, over whatever set_token or another login stored while it was
\* outstanding, so the token after two logins is that of the one processed
\* last, in whichever order they were sent; a login that is refused stores
\* nothing; and the token is always one given to the constructor, to
\* set_token or by a login response.
C29_LastProcessedLoginWins ==
    [][/\ LoginResumesOk => token' = outcome'.resp.body.value.v["token"]
       /\ (AsyncLoginResumes /\ ~IsSuccess(outcome'.resp)) => token' = token
       /\ token' \in InitTokens \cup SetTokens
                       \cup {TokenFor(u) : u \in LoginUsers}]_vars

\* Logins of admin and then bob were sent and both were outstanding; bob's
\* response was processed first and admin's last: the token is admin's.
C29_Witness ==
    /\ nSent = 2
    /\ pending = EmptyBag
    /\ lastReq.json.v["username"] = JStr("bob")
    /\ outcome.call = "login"
    /\ IsSuccess(outcome.resp)
    /\ outcome.resp.body.value.v["token"] = JStr("jwt-admin")
    /\ token = JStr("jwt-admin")
(***************************************************************************)
(* Code and message of an error, checked under SpecNormalize.              *)
(***************************************************************************)
\* The failure body is a mapping whose error is a mapping.
ErrorMapping ==
    /\ Failure
    /\ outcome.resp.body.json
    /\ IsDict(ParsedBody)
    /\ "error" \in DOMAIN ParsedBody.v
    /\ IsDict(ParsedBody.v["error"])

\* The error mapping gives a non-empty string under the key name.
Gives(name) ==
    /\ name \in DOMAIN ParsedBody.v["error"].v
    /\ ParsedBody.v["error"].v[name].k = "str"
    /\ ParsedBody.v["error"].v[name].v # ""

HttpMessage ==
    JStr("HTTP " \o ToString(outcome.resp.status) \o ": " \o outcome.resp.reason)
HttpCode == JStr("HTTP_" \o ToString(outcome.resp.status))

\* The error mapping holds a string under the key name and nothing else.
Only(name) ==
    /\ DOMAIN ParsedBody.v["error"].v = {name}
    /\ ParsedBody.v["error"].v[name].k = "str"

\* C30 as stated: on a non-2xx response a body {error: {code: X}} with no
\* message gives code X with message "HTTP <status>: <reason>", a body
\* {error: {message: Y}} with no code gives message Y with code
\* "HTTP_<status>", and a JSON body that is not a mapping gives both
\* fallbacks.
C30_CodeMessageAsGiven ==
    /\ (ErrorMapping /\ Only("code"))
          => outcome.result =
                RaiseAetherError(HttpMessage, ParsedBody.v["error"].v["code"],
                                 outcome.resp.status)
    /\ (ErrorMapping /\ Only("message"))
          => outcome.result =
                RaiseAetherError(ParsedBody.v["error"].v["message"], HttpCode,
                                 outcome.resp.status)
    /\ (Failure /\ outcome.resp.body.json /\ ~IsDict(ParsedBody))
          => outcome.result =
                RaiseAetherError(HttpMessage, HttpCode, outcome.resp.status)

\* C30 amended: on a non-2xx response the code is the body's error.code
\* when that is a non-empty string and "HTTP_<status>" otherwise, and the
\* message is the body's error.message when that is a non-empty string and
\* "HTTP <status>: <reason>" otherwise, each whatever the other is: a body
\* {error: {code: X}} with X not empty gives code X with the fallback
\* message, a body {error: {message: Y}} with Y not empty gives message Y
\* with the fallback code, and a JSON body that is not a mapping gives both
\* fallbacks.
C30_CodeMessageIndependent ==
    /\ ErrorMapping =>
          /\ outcome.result.kind = "raise"
          /\ outcome.result.exc = "AetherError"
          /\ outcome.result.status = outcome.resp.status
          /\ outcome.result.code =
                IF Gives("code") THEN ParsedBody.v["error"].v["code"] ELSE HttpCode
          /\ outcome.result.message =
                IF Gives("message") THEN ParsedBody.v["error"].v["message"]
                ELSE HttpMessage
    /\ (ErrorMapping /\ DOMAIN ParsedBody.v["error"].v = {"code"} /\ Gives("code"))
          => outcome.result =
                RaiseAetherError(HttpMessage, ParsedBody.v["error"].v["code"],
                                 outcome.resp.status)
    /\ (ErrorMapping /\ DOMAIN ParsedBody.v["error"].v = {"message"}
           /\ Gives("message"))
          => outcome.result =
                RaiseAetherError(ParsedBody.v["error"].v["message"], HttpCode,
                                 outcome.resp.status)
    /\ (Failure /\ outcome.resp.body.json /\ ~IsDict(ParsedBody))
          => outcome.result =
                RaiseAetherError(HttpMessage, HttpCode, outcome.resp.status)

\* The async client was answered 500 with {"error": {"code":
\* "AGENT_NOT_FOUND"}}: code AGENT_NOT_FOUND, message "HTTP 500: Internal
\* Server Error".
C30_Witness ==
    /\ mode = "async"
    /\ Called
    /\ outcome.resp = Response(500, "Internal Server Error",
           JsonBody(JDict([error |-> JDict([code |-> JStr("AGENT_NOT_FOUND")])])))
    /\ outcome.result = RaiseAetherError(JStr("HTTP 500: Internal Server Error"),
                                         JStr("AGENT_NOT_FOUND"), 500)
====
